---- MODULE Spec2Model ----
(***************************************************************************)
(* light_serve: a hand-written HTTP/1.1 server.                            *)
(*                                                                         *)
(* The module models these parts of the repository:                        *)
(*   - the request parser (internal/adapter/http/parser.go) as operators   *)
(*     on byte sequences, a byte being a one-character string;             *)
(*   - the response builder and the router (response.go, router.go),       *)
(*     specification SpecRouter;                                           *)
(*   - the connection engine (HandleConnWithRouterAndContext),             *)
(*     specification SpecConn;                                             *)
(*   - the server runtime (cmd/server/main.go: serve, handleConn),         *)
(*     specifications SpecServe, SpecServeForce and SpecServeFair;         *)
(*   - the timeout middleware (middleware.go), specification SpecTimeout.  *)
(***************************************************************************)
EXTENDS Integers, Sequences, FiniteSets, TLC

VARIABLES
    \* ---- connection engine (HandleConnWithRouterAndContext) ----
    sent,       \* history: the items the client sent, in order, by place in Catalogue
    wire,       \* bytes the client has sent (it then closes its side) and the engine
                \* has not read yet
    buffer,     \* the engine's unparsed read buffer
    epc,        \* the engine's position: "drain", "read", "handler", "closed"
    cur,        \* the parse result and close decision of the request in the handler
    out,        \* the conn.Write calls of the engine, in order: [resp, ok]
    parsed,     \* history: the requests parsed successfully, in parse order
    invoked,    \* history: for each handler invocation, the index in parsed of its request
    sockOpen,   \* FALSE once the socket has been closed under the engine
    endReason,  \* history: why the engine returned ("none" while it runs)
    \* ---- server runtime (serverRuntime) ----
    ctxDone,    \* serve's context is cancelled
    lstate,     \* listener: "open" or "closed"
    spc,        \* serve's position
    conns,      \* the active-connection set s.conns
    wg,         \* the wait counter s.wg
    cstate,     \* per connection: where its handleConn goroutine is: "read",
                \* "handler", "write", "exited", "untracked", "finished"
    csock,      \* per connection: "open" or "closed" (server side of the socket)
    wpc,        \* per connection: the watcher goroutine: "waiting" or "done"
    cresp,      \* history: a response has reached its client
    clost,      \* history: a response has been written to a closed socket
    timerFired, \* time.After(s.shutdownDeadline) has fired
    waitDone,   \* the channel closed after s.wg.Wait() returns
    accepted,   \* history: connections accepted so far
    acceptErrs, \* history: Accept has returned an error other than net.ErrClosed
    forced,     \* history: closeTrackedConns has run
    \* ---- timeout middleware ----
    tpc,        \* the middleware call: "start" (before its select), "parked" (blocked
                \* in the select), "woken" (a case has been handed to it), "returned"
    tsel,       \* the select case handed to the parked call: "response", "panic", "ctx"
    hpc,        \* the goroutine running the handler: "running" or "done"
    responseCh, \* buffered channel of capacity 1
    panicCh,    \* buffered channel of capacity 1
    tctx,       \* the derived context: "live", "deadline", "canceled"
    parentCtx,  \* the request's own context: "live" or "canceled"
    tret,       \* the response the middleware returned to its caller
    hkind,      \* what the downstream handler does when it finishes
    hseen,      \* history: the states of its context the handler has observed
    tlog,       \* history: the events that occurred before the call returned, in order
    tvia,       \* history: how the select chose: "poll" (cases ready on entry), "wake"
    \* ---- router ----
    routes,     \* Router.routes: the map from "METHOD:path" keys to handlers
    registered, \* history: the <<upper-cased method, path>> pairs registered
    probe,      \* the outcome of the last routing of a request
    \* ---- recovery middleware ----
    rpc,        \* the call: "start", "downstream" (inside safeInvoke), "returned"
    rreq,       \* the request the call was made with
    rlogger,    \* the logger is not nil
    rkind,      \* what the downstream handler does
    rret,       \* the response returned to the caller
    rlog,       \* the entries the logger has received, in order
    rescaped,   \* a panic has left the call and reached the caller
    \* ---- middleware chain of the router ----
    middlewares, \* Router.middlewares: the kinds of the middlewares, in registration order
    wrapped,    \* the handler Resolve returned: its layers, outermost first
    mwsnap,     \* history: Router.middlewares as it was when Resolve was called
    mwdepth,    \* the number of layers of wrapped the running call is inside
    mwpc,       \* "setup", "miss", "resolved", "down", "up", "done"
    mwtrace,    \* history: the work done by the call, in order
    \* ---- one response written by the engine ----
    wstage,     \* "handler" (the response is being built), "written"
    wkind,      \* where the response comes from: "routed", "nilresp", "notfound",
                \* "notallowed"
    wclose,     \* closeConn: the connection closes after this response
    wresp,      \* the Response: as the handler builds it, then as Bytes left it
    wgiven,     \* history: the headers the handler had set when it returned
    wbytes,     \* the bytes handed to conn.Write
    \* ---- the parser on its own ----
    pdata,      \* the bytes given to ParseRequest
    pfed,       \* the number of pieces the input was put together from
    pres,       \* what ParseRequest(pdata) returned
    pexact,     \* what ParseRequest returned for the first pres.consumed bytes of pdata
    pshort,     \* what ParseRequest returned for one byte less than that
    pfirst,     \* history: the first result that was a request taking all of pdata
    pshape,     \* how pdata was put together, for inputs built to a size
    plines,     \* the request pdata spells with CRLF line ends: [line, headers, body]
    plf,        \* what ParseRequest returned for the same request with LF line ends
    \* ---- the context of the engine on its way to a use case ----
    gctx,       \* the ctx given to the engine: "nil", "background" or "signal"
    gdone,      \* the signal context has been cancelled
    gleft,      \* the requests the client still sends on the connection
    gpc,        \* the engine's position: "idle", "drain", "handler", "usecase",
                \* "mapped", "closed"
    greq,       \* the request in hand: its Ctx field and the use case behind its route
    gcall,      \* the call of Handle: the ctx it got, the ctx.Err() it saw, what it returned
    gresp,      \* the status of the response the adapter returned
    ghanded,    \* history: for each request handed to a handler, its Ctx field
    gout,       \* the responses written, in order, each with its request
    \* ---- handleConn and the deadlines of its connection ----
    readTimeout,  \* s.readTimeout: negative, zero or positive
    writeTimeout, \* s.writeTimeout: negative, zero or positive
    dpc,        \* handleConn's position: "idle", "readDeadline", "writeDeadline",
                \* then the engine's: "read", "parse", "write", "returned"
    dleft,      \* the requests the client still sends on the connection
    dpassed,    \* the deadlines of the connection that have passed
    dfail,      \* the engine writes the 400 that follows a failed read
    devents,    \* history: the calls on the connection and the parses, in order
    \* ---- the engine on streams built to a size ----
    cstream,    \* the bytes the client sends on the connection, in all
    cshort,     \* the reads that may still return fewer bytes than they could
    \* ---- the engine with the timeout middleware around its handlers ----
    otimeout,   \* the duration given to TimeoutMiddleware: zero or positive
    oleft,      \* the complete requests still in the engine's buffer
    opc,        \* the engine's position: "drain", "handler" (a handler called
                \* in the engine's goroutine), "select" (the select of the
                \* middleware), "closed"
    ocur,       \* the number of the request in hand
    otasks,     \* the requests whose handler invocation is executing
    ochan,      \* the requests whose responseCh holds a response
    oout,       \* the status codes written, in order
    \* ---- a router and the registrations made on it ----
    latest,     \* for each (upper-cased method, path) registered, the handler
                \* of its last registration
    \* ---- a response and the calls made on it ----
    bresp,      \* the Response: StatusCode, Headers, Body
    bcaller,    \* the caller has set a header named Content-Length, in any case
    bcalls,     \* the calls of Bytes made
    bwire       \* what the last call of Bytes returned

connVars    == <<sent, wire, buffer, epc, cur, out, parsed, invoked, sockOpen,
                 endReason>>
serveVars   == <<ctxDone, lstate, spc, conns, wg, cstate, csock, wpc, cresp, clost,
                 timerFired, waitDone, accepted, acceptErrs, forced>>
timeoutVars == <<tpc, tsel, hpc, responseCh, panicCh, tctx, parentCtx, tret, hkind, hseen,
                 tlog, tvia>>
routerVars  == <<routes, registered, probe>>
recoveryVars == <<rpc, rreq, rlogger, rkind, rret, rlog, rescaped>>
\* The parts of the state added after the first four, and the first four
chainVars   == <<middlewares, wrapped, mwsnap, mwdepth, mwpc, mwtrace>>
writeVars   == <<wstage, wkind, wclose, wresp, wgiven, wbytes>>
parserVars  == <<pdata, pfed, pres, pexact, pshort, pfirst, pshape, plines, plf>>
contextVars == <<gctx, gdone, gleft, gpc, greq, gcall, gresp, ghanded, gout>>
deadlineVars == <<readTimeout, writeTimeout, dpc, dleft, dpassed, dfail, devents>>
chunkVars   == <<cstream, cshort>>
overlapVars == <<otimeout, oleft, opc, ocur, otasks, ochan, oout>>
resolveVars == <<latest>>
bytesVars   == <<bresp, bcaller, bcalls, bwire>>
lastVars    == <<resolveVars, bytesVars>>
restVars    == <<chunkVars, overlapVars, lastVars>>
moreVars    == <<contextVars, deadlineVars, restVars>>
laterVars   == <<recoveryVars, chainVars, writeVars, parserVars, moreVars>>
coreVars    == <<connVars, serveVars, timeoutVars, routerVars>>
vars        == <<coreVars, laterVars>>

----------------------------------------------------------------------------
(* Bytes and the string helpers of the Go standard library the parser uses *)

Min(S) == CHOOSE x \in S : \A y \in S : x <= y
\* the largest element is the negation of the smallest negation
Max(S) == 0 - Min({0 - x : x \in S})

\* unicode.IsSpace restricted to ASCII
IsSpace(c) == c \in {" ", "\t", "\n", "\r", "\f"}

UpperBytes == <<"A","B","C","D","E","F","G","H","I","J","K","L","M",
                "N","O","P","Q","R","S","T","U","V","W","X","Y","Z">>
LowerBytes == <<"a","b","c","d","e","f","g","h","i","j","k","l","m",
                "n","o","p","q","r","s","t","u","v","w","x","y","z">>

LowerByte(c) ==
    IF \E i \in 1..26 : UpperBytes[i] = c
    THEN LowerBytes[CHOOSE i \in 1..26 : UpperBytes[i] = c]
    ELSE c

UpperByte(c) ==
    IF \E i \in 1..26 : LowerBytes[i] = c
    THEN UpperBytes[CHOOSE i \in 1..26 : LowerBytes[i] = c]
    ELSE c

\* strings.ToLower / strings.ToUpper
ToLower(s) == [i \in 1..Len(s) |-> LowerByte(s[i])]
ToUpper(s) == [i \in 1..Len(s) |-> UpperByte(s[i])]

\* strings.TrimSpace
TrimSpace(s) ==
    LET ns == {i \in 1..Len(s) : ~IsSpace(s[i])}
    IN  IF ns = {} THEN <<>> ELSE SubSeq(s, Min(ns), Max(ns))

\* strings.Index(s, sub): 0-based offset of the first occurrence, -1 if none
Index(s, sub) ==
    LET at == {i \in 1..(Len(s) - Len(sub) + 1) : SubSeq(s, i, i + Len(sub) - 1) = sub}
    IN  IF at = {} THEN -1 ELSE Min(at) - 1

\* strings.Fields: the maximal runs of non-space bytes
RECURSIVE Fields(_)
Fields(s) ==
    LET ns == {i \in 1..Len(s) : ~IsSpace(s[i])}
    IN  IF ns = {} THEN <<>>
        ELSE LET b  == Min(ns)
                 sp == {i \in b..Len(s) : IsSpace(s[i])}
                 e  == IF sp = {} THEN Len(s) ELSE Min(sp) - 1
             IN  <<SubSeq(s, b, e)>> \o Fields(SubSeq(s, e + 1, Len(s)))

\* Of a non-empty set of positions, the first one from the middle of a
\* string of n bytes on, or the last one when all are before the middle
NearMiddle(at, n) ==
    LET later == {i \in at : i >= n \div 2}
    IN  IF later # {} THEN Min(later) ELSE Max(at)

\* strings.ReplaceAll(s, "\r\n", "\n"): no two occurrences of "\r\n" overlap,
\* so every one of them is replaced, in what is before and in what is behind
\* any one of them
RECURSIVE ReplaceCRLF(_)
ReplaceCRLF(s) ==
    LET at == {i \in 1..(Len(s) - 1) : s[i] = "\r" /\ s[i + 1] = "\n"}
    IN  IF at = {} THEN s
        ELSE LET m == NearMiddle(at, Len(s))
             IN  ReplaceCRLF(SubSeq(s, 1, m - 1)) \o <<"\n">>
                     \o ReplaceCRLF(SubSeq(s, m + 2, Len(s)))

\* strings.Split(s, "\n"): always at least one element; the elements before
\* any one "\n", then those behind it
RECURSIVE SplitLF(_)
SplitLF(s) ==
    LET at == {i \in 1..Len(s) : s[i] = "\n"}
    IN  IF at = {} THEN <<s>>
        ELSE LET m == NearMiddle(at, Len(s))
             IN  SplitLF(SubSeq(s, 1, m - 1)) \o SplitLF(SubSeq(s, m + 1, Len(s)))

Digits == <<"0","1","2","3","4","5","6","7","8","9">>
IsDigit(c) == \E i \in 1..10 : Digits[i] = c
DigitVal(c) == (CHOOSE i \in 1..10 : Digits[i] = c) - 1

RECURSIVE StripZeros(_)
StripZeros(s) == IF Len(s) > 1 /\ s[1] = "0" THEN StripZeros(Tail(s)) ELSE s

\* The decimal value of a digit string of at most AtoiExactDigits significant digits.
RECURSIVE DecVal(_)
DecVal(s) == IF s = <<>> THEN 0 ELSE 10 * DecVal(SubSeq(s, 1, Len(s) - 1)) + DigitVal(s[Len(s)])

\* Digit strings with more significant digits than this are not evaluated
\* exactly: they stand for a value above every limit of the parser.
AtoiExactDigits == 8
\* The largest int, 9223372036854775807, as a digit string.
IntMax == <<"9","2","2","3","3","7","2","0","3","6","8","5","4","7","7","5","8","0","7">>
IntMaxDigits == Len(IntMax)
Huge == 10 ^ AtoiExactDigits

RECURSIVE DigitsLeq(_, _)
DigitsLeq(a, b) ==   \* a <= b for digit strings of equal length
    IF a = <<>> THEN TRUE
    ELSE IF DigitVal(a[1]) # DigitVal(b[1]) THEN DigitVal(a[1]) < DigitVal(b[1])
    ELSE DigitsLeq(Tail(a), Tail(b))

\* strconv.Atoi: an optional sign, then one or more decimal digits; a value
\* outside the 64-bit int range is an error. Returns [ok, n]; a value that is
\* in range but has more than AtoiExactDigits digits is reported as Huge.
Atoi(s) ==
    LET signed == Len(s) >= 1 /\ s[1] \in {"+", "-"}
        neg    == Len(s) >= 1 /\ s[1] = "-"
        ds     == IF signed THEN Tail(s) ELSE s
        sig    == StripZeros(ds)
    IN  IF ds = <<>> \/ \E i \in 1..Len(ds) : ~IsDigit(ds[i])
        THEN [ok |-> FALSE, n |-> 0]
        ELSE IF Len(sig) > IntMaxDigits \/ (Len(sig) = IntMaxDigits /\ ~DigitsLeq(sig, IntMax))
        THEN [ok |-> FALSE, n |-> 0]
        ELSE LET mag == IF Len(sig) > AtoiExactDigits THEN Huge ELSE DecVal(sig)
             IN  [ok |-> TRUE, n |-> IF neg THEN 0 - mag ELSE mag]

\* strconv.Itoa for the small non-negative numbers the model serialises
RECURSIVE Itoa(_)
Itoa(n) == IF n < 10 THEN <<Digits[n + 1]>> ELSE Itoa(n \div 10) \o <<Digits[(n % 10) + 1]>>

----------------------------------------------------------------------------
(* parser.go                                                               *)

maxRequestLineBytes == 4096
\* maxHeadersBytes one byte smaller
maxHeadersBytes_OneLess == 16384 - 1
maxHeadersBytes     == 16384
maxHeaderCount      == 50
maxBodyBytes        == 262144

NoReq == [Method |-> <<>>, Path |-> <<>>, Version |-> <<>>, Headers |-> <<>>, Body |-> <<>>]

ParseErr(e) == [req |-> NoReq, consumed |-> 0, err |-> e]

HTTP11 == <<"H","T","T","P","/","1",".","1">>
HTTP10 == <<"H","T","T","P","/","1",".","0">>

\* findHeaderDelimiter with the length of "\n\n" returned for both terminators
findHeaderDelimiter_ShortDelimiter(data) ==
    LET crlf == Index(data, <<"\r", "\n", "\r", "\n">>)
        lf   == Index(data, <<"\n", "\n">>)
    IN  IF crlf >= 0 /\ lf >= 0
        THEN (IF crlf < lf THEN <<crlf, 2>> ELSE <<lf, 2>>)
        ELSE IF crlf >= 0 THEN <<crlf, 2>>
        ELSE IF lf >= 0 THEN <<lf, 2>>
        ELSE <<-1, 0>>

\* findHeaderDelimiter with "\n\n" taken wherever it occurs, also behind an
\* earlier "\r\n\r\n"
findHeaderDelimiter_PreferLF(data) ==
    LET crlf == Index(data, <<"\r", "\n", "\r", "\n">>)
        lf   == Index(data, <<"\n", "\n">>)
    IN  IF lf >= 0 THEN <<lf, 2>>
        ELSE IF crlf >= 0 THEN <<crlf, 4>>
        ELSE <<-1, 0>>

\* findHeaderDelimiter that knows "\r\n\r\n" as the only terminator
findHeaderDelimiter_CRLFOnly(data) ==
    LET crlf == Index(data, <<"\r", "\n", "\r", "\n">>)
    IN  IF crlf >= 0 THEN <<crlf, 4>> ELSE <<-1, 0>>

\* findHeaderDelimiter: <<offset of the first terminator, its length>>, offsets
\* counted from 0 as in the source; <<-1, 0>> when there is none.
findHeaderDelimiter(data) ==
    LET crlf == Index(data, <<"\r", "\n", "\r", "\n">>)
        lf   == Index(data, <<"\n", "\n">>)
    IN  IF crlf >= 0 /\ lf >= 0
        THEN (IF crlf < lf THEN <<crlf, 4>> ELSE <<lf, 2>>)
        ELSE IF crlf >= 0 THEN <<crlf, 4>>
        ELSE IF lf >= 0 THEN <<lf, 2>>
        ELSE <<-1, 0>>

\* splitLines
splitLines(head) == SplitLF(ReplaceCRLF(head))

\* parseRequestLine: [err, method, path, version]
parseRequestLine(line) ==
    LET parts == Fields(line)
    IN  IF Len(parts) # 3
        THEN [err |-> "ErrMalformedRequestLine", method |-> <<>>, path |-> <<>>, version |-> <<>>]
        ELSE IF parts[3] # HTTP11 /\ parts[3] # HTTP10
        THEN [err |-> "ErrInvalidHTTPVersion", method |-> <<>>, path |-> <<>>, version |-> <<>>]
        ELSE [err |-> "nil", method |-> parts[1], path |-> parts[2], version |-> parts[3]]

\* parseHeaderLine with the whitespace-only lines counted as header lines
parseHeaderLine_CountsBlank(line, headers, headerCount) ==
    IF headerCount + 1 > maxHeaderCount
    THEN [err |-> "ErrTooManyHeaders", headers |-> headers, count |-> headerCount + 1]
    ELSE IF TrimSpace(line) = <<>>
    THEN [err |-> "nil", headers |-> headers, count |-> headerCount + 1]
    ELSE LET colon == Index(line, <<":">>)
         IN  IF colon <= 0
             THEN [err |-> "ErrInvalidHeader", headers |-> headers, count |-> headerCount + 1]
             ELSE LET key   == ToLower(TrimSpace(SubSeq(line, 1, colon)))
                      value == TrimSpace(SubSeq(line, colon + 2, Len(line)))
                  IN  IF key = <<>>
                      THEN [err |-> "ErrInvalidHeader", headers |-> headers,
                            count |-> headerCount + 1]
                      ELSE [err |-> "nil",
                            headers |-> [k \in (DOMAIN headers) \cup {key} |->
                                            IF k = key THEN value ELSE headers[k]],
                            count |-> headerCount + 1]

\* parseHeaderLine that keeps the value a name already has
parseHeaderLine_FirstWins(line, headers, headerCount) ==
    IF TrimSpace(line) = <<>>
    THEN [err |-> "nil", headers |-> headers, count |-> headerCount]
    ELSE IF headerCount + 1 > maxHeaderCount
    THEN [err |-> "ErrTooManyHeaders", headers |-> headers, count |-> headerCount + 1]
    ELSE LET colon == Index(line, <<":">>)
         IN  IF colon <= 0
             THEN [err |-> "ErrInvalidHeader", headers |-> headers, count |-> headerCount + 1]
             ELSE LET key   == ToLower(TrimSpace(SubSeq(line, 1, colon)))
                      value == TrimSpace(SubSeq(line, colon + 2, Len(line)))
                  IN  IF key = <<>>
                      THEN [err |-> "ErrInvalidHeader", headers |-> headers,
                            count |-> headerCount + 1]
                      ELSE [err |-> "nil",
                            headers |-> [k \in (DOMAIN headers) \cup {key} |->
                                            IF k \in DOMAIN headers THEN headers[k]
                                            ELSE value],
                            count |-> headerCount + 1]

\* One pass of the header loop of ParseRequest, over one of lines[1:]:
\* [err, headers, count]. headers is a function from lowercased names to
\* trimmed values.
parseHeaderLine(line, headers, headerCount) ==
    IF TrimSpace(line) = <<>>
    THEN [err |-> "nil", headers |-> headers, count |-> headerCount]
    ELSE IF headerCount + 1 > maxHeaderCount
    THEN [err |-> "ErrTooManyHeaders", headers |-> headers, count |-> headerCount + 1]
    ELSE LET colon == Index(line, <<":">>)
         IN  IF colon <= 0
             THEN [err |-> "ErrInvalidHeader", headers |-> headers, count |-> headerCount + 1]
             ELSE LET key   == ToLower(TrimSpace(SubSeq(line, 1, colon)))
                      value == TrimSpace(SubSeq(line, colon + 2, Len(line)))
                  IN  IF key = <<>>
                      THEN [err |-> "ErrInvalidHeader", headers |-> headers,
                            count |-> headerCount + 1]
                      ELSE [err |-> "nil",
                            headers |-> [k \in (DOMAIN headers) \cup {key} |->
                                            IF k = key THEN value ELSE headers[k]],
                            count |-> headerCount + 1]

\* The header loop of ParseRequest over lines[1:], which returns at the first
\* error: the passes over the first half of the lines, then, from the headers
\* and the count they leave, the passes over the second half.
RECURSIVE parseHeaderLines(_, _, _)
parseHeaderLines(lines, headers, headerCount) ==
    IF lines = <<>> THEN [err |-> "nil", headers |-> headers, count |-> headerCount]
    ELSE IF Len(lines) = 1 THEN parseHeaderLine(lines[1], headers, headerCount)
    ELSE LET half  == Len(lines) \div 2
             first == parseHeaderLines(SubSeq(lines, 1, half), headers, headerCount)
         IN  IF first.err # "nil" THEN first
             ELSE parseHeaderLines(SubSeq(lines, half + 1, Len(lines)),
                                   first.headers, first.count)

\* req.Headers[name]: the empty string when the name is absent
HeaderGet(headers, name) == IF name \in DOMAIN headers THEN headers[name] ELSE <<>>

ContentLengthKey == <<"c","o","n","t","e","n","t","-","l","e","n","g","t","h">>

\* The content-length block of ParseRequest: [err, n]
parseContentLength(headers) ==
    IF ContentLengthKey \notin DOMAIN headers THEN [err |-> "nil", n |-> 0]
    ELSE LET rawLen == headers[ContentLengthKey]
             conv   == Atoi(rawLen)
         IN  IF rawLen = <<>> THEN [err |-> "ErrInvalidContentLength", n |-> 0]
             ELSE IF ~conv.ok \/ conv.n < 0 THEN [err |-> "ErrInvalidContentLength", n |-> 0]
             ELSE IF conv.n > maxBodyBytes THEN [err |-> "ErrBodyTooLarge", n |-> 0]
             ELSE [err |-> "nil", n |-> conv.n]

\* ParseRequest: [req, consumed, err], err = "nil" on success
ParseRequest(data) ==
    IF Len(data) = 0 THEN ParseErr("ErrEmptyRequest")
    ELSE
    LET hd           == findHeaderDelimiter(data)
        headerEnd    == hd[1]
        delimiterLen == hd[2]
    IN  IF Len(data) > maxHeadersBytes /\ headerEnd < 0 THEN ParseErr("ErrHeadersTooLarge")
        ELSE IF headerEnd < 0 THEN ParseErr("ErrIncompleteRequest")
        ELSE IF headerEnd > maxHeadersBytes THEN ParseErr("ErrHeadersTooLarge")
        ELSE
        LET head  == SubSeq(data, 1, headerEnd)
            lines == splitLines(head)
        IN  IF Len(lines) = 0 \/ TrimSpace(lines[1]) = <<>> THEN ParseErr("ErrMalformedRequestLine")
            ELSE IF Len(lines[1]) > maxRequestLineBytes THEN ParseErr("ErrRequestLineTooLong")
            ELSE
            LET rl == parseRequestLine(lines[1])
            IN  IF rl.err # "nil" THEN ParseErr(rl.err)
                ELSE
                LET hs == parseHeaderLines(Tail(lines), <<>>, 0)
                IN  IF hs.err # "nil" THEN ParseErr(hs.err)
                    ELSE
                    LET bodyStart == headerEnd + delimiterLen
                        cl        == parseContentLength(hs.headers)
                    IN  IF bodyStart > Len(data) THEN ParseErr("ErrIncompleteRequest")
                        ELSE IF cl.err # "nil" THEN ParseErr(cl.err)
                        ELSE IF Len(data) - bodyStart < cl.n THEN ParseErr("ErrIncompleteBody")
                        ELSE [req |-> [Method  |-> rl.method,
                                       Path    |-> rl.path,
                                       Version |-> rl.version,
                                       Headers |-> hs.headers,
                                       Body    |-> SubSeq(data, bodyStart + 1, bodyStart + cl.n)],
                              consumed |-> bodyStart + cl.n,
                              err |-> "nil"]

----------------------------------------------------------------------------
(* response.go                                                             *)

HdrConnection    == <<"C","o","n","n","e","c","t","i","o","n">>
HdrContentType   == <<"C","o","n","t","e","n","t","-","T","y","p","e">>
HdrContentLength == <<"C","o","n","t","e","n","t","-","L","e","n","g","t","h">>
HdrAllow         == <<"A","l","l","o","w">>
TextPlain        == <<"t","e","x","t","/","p","l","a","i","n">>
ValClose         == <<"c","l","o","s","e">>
ValKeepAlive     == <<"k","e","e","p","-","a","l","i","v","e">>
ConnectionKey    == <<"c","o","n","n","e","c","t","i","o","n">>
BodyBadRequest          == <<"B","a","d"," ","R","e","q","u","e","s","t">>
BodyNotFound            == <<"N","o","t"," ","F","o","u","n","d">>
BodyMethodNotAllowed    == <<"M","e","t","h","o","d"," ","N","o","t"," ","A","l","l","o","w","e","d">>
BodyInternalServerError == <<"I","n","t","e","r","n","a","l"," ","S","e","r","v","e","r"," ",
                             "E","r","r","o","r">>
BodyRequestTimeout      == <<"R","e","q","u","e","s","t"," ","T","i","m","e","o","u","t">>

\* A nil *Response
NilResponse == [StatusCode |-> -1, Headers |-> <<>>, Body |-> <<>>]

\* NewResponse
NewResponse == [StatusCode |-> 200, Headers |-> <<>>, Body |-> <<>>]

\* Response.SetHeader: overwrites on an exact match of the key
SetHeader(r, key, value) ==
    [r EXCEPT !.Headers = [k \in (DOMAIN r.Headers) \cup {key} |->
                              IF k = key THEN value ELSE r.Headers[k]]]

\* Response.WriteString / Response.WriteBytes: replace the body
WriteString(r, body) == [r EXCEPT !.Body = body]
WriteBytes(r, body)  == [r EXCEPT !.Body = body]

SetStatus(r, code) == [r EXCEPT !.StatusCode = code]

\* strings.EqualFold on ASCII
EqualFold(a, b) == ToLower(a) = ToLower(b)

\* hasHeaderIgnoreCase comparing the keys as they are written
hasHeaderIgnoreCase_Exact(headers, target) == \E key \in DOMAIN headers : key = target

\* hasHeaderIgnoreCase
hasHeaderIgnoreCase(headers, target) == \E key \in DOMAIN headers : EqualFold(key, target)

\* BytesHeaders with the number of headers taken for the length of the body
BytesHeaders_HeaderCount(r) ==
    IF ~hasHeaderIgnoreCase(r.Headers, HdrContentLength)
    THEN SetHeader(r, HdrContentLength, Itoa(Cardinality(DOMAIN r.Headers)))
    ELSE r

\* The part of Response.Bytes that changes the response before it is
\* serialised: Content-Length is added unless a header of that name exists.
BytesHeaders(r) ==
    IF ~hasHeaderIgnoreCase(r.Headers, HdrContentLength)
    THEN SetHeader(r, HdrContentLength, Itoa(Len(r.Body)))
    ELSE r

\* internalServerErrorResponse
internalServerErrorResponse ==
    WriteString(SetHeader(SetStatus(NewResponse, 500), HdrContentType, TextPlain),
                BodyInternalServerError)

----------------------------------------------------------------------------
(* router.go                                                               *)

\* The bytes of the model in ASCII order, for sort.Strings
AsciiOrder == <<"\t", "\n", "\f", "\r", " ", "+", ",", "-", ".", "/",
                "0","1","2","3","4","5","6","7","8","9", ":">>
              \o UpperBytes \o LowerBytes
ByteOrd(c) == CHOOSE i \in 1..Len(AsciiOrder) : AsciiOrder[i] = c

RECURSIVE StrLess(_, _)
StrLess(a, b) ==
    IF b = <<>> THEN FALSE
    ELSE IF a = <<>> THEN TRUE
    ELSE IF a[1] # b[1] THEN ByteOrd(a[1]) < ByteOrd(b[1])
    ELSE StrLess(Tail(a), Tail(b))

\* sort.Strings of the elements of a set of strings
RECURSIVE SortStrings(_)
SortStrings(S) ==
    IF S = {} THEN <<>>
    ELSE LET m == CHOOSE x \in S : \A y \in S \ {x} : StrLess(x, y)
         IN  <<m>> \o SortStrings(S \ {m})

\* strings.Join
RECURSIVE Join(_, _)
Join(parts, sep) ==
    IF parts = <<>> THEN <<>>
    ELSE IF Len(parts) = 1 THEN parts[1]
    ELSE parts[1] \o sep \o Join(Tail(parts), sep)

\* strings.HasSuffix / strings.TrimSuffix
HasSuffix(s, suffix) ==
    Len(s) >= Len(suffix) /\ SubSeq(s, Len(s) - Len(suffix) + 1, Len(s)) = suffix
TrimSuffix(s, suffix) ==
    IF HasSuffix(s, suffix) THEN SubSeq(s, 1, Len(s) - Len(suffix)) ELSE s

\* routeKey
routeKey(method, path) == ToUpper(method) \o <<":">> \o path

\* Router.Register on the routes map (a function from keys to handlers)
Register(rt, method, path, handler) ==
    [k \in (DOMAIN rt) \cup {routeKey(method, path)} |->
        IF k = routeKey(method, path) THEN handler ELSE rt[k]]

\* Router.Resolve: [ok, handler]. The middleware chain of the router is
\* applied by the caller of the handler.
Resolve(rt, method, path) ==
    IF routeKey(method, path) \in DOMAIN rt
    THEN [ok |-> TRUE, handler |-> rt[routeKey(method, path)]]
    ELSE [ok |-> FALSE, handler |-> "nil"]

\* Router.AllowedMethods with the methods in descending order
AllowedMethods_Descending(rt, path) ==
    LET suffix == <<":">> \o path
        seen   == {TrimSuffix(key, suffix) : key \in {k \in DOMAIN rt : HasSuffix(k, suffix)}}
                  \ {<<>>}
        up     == SortStrings(seen)
    IN  [i \in 1..Len(up) |-> up[Len(up) + 1 - i]]

\* Router.AllowedMethods
AllowedMethods(rt, path) ==
    LET suffix == <<":">> \o path
        seen   == {TrimSuffix(key, suffix) : key \in {k \in DOMAIN rt : HasSuffix(k, suffix)}}
                  \ {<<>>}
    IN  SortStrings(seen)

----------------------------------------------------------------------------
(* The connection engine: HandleConnWithRouterAndContext and its helpers   *)

readChunkSize == 4096

\* shouldCloseConnection with HTTP/1.0 treated like HTTP/1.1
shouldCloseConnection_SameDefault(req) ==
    IF req = NoReq THEN TRUE
    ELSE LET connection == ToLower(TrimSpace(HeaderGet(req.Headers, ConnectionKey)))
         IN  IF req.Version = HTTP11 THEN connection = ValClose
             ELSE IF req.Version = HTTP10 THEN connection = ValClose
             ELSE TRUE

\* shouldCloseConnection
shouldCloseConnection(req) ==
    IF req = NoReq THEN TRUE
    ELSE LET connection == ToLower(TrimSpace(HeaderGet(req.Headers, ConnectionKey)))
         IN  IF req.Version = HTTP11 THEN connection = ValClose
             ELSE IF req.Version = HTTP10 THEN connection # ValKeepAlive
             ELSE TRUE

\* setConnectionHeader
setConnectionHeader(resp, closeConn) ==
    IF resp = NilResponse THEN resp
    ELSE IF closeConn THEN SetHeader(resp, HdrConnection, ValClose)
    ELSE SetHeader(resp, HdrConnection, ValKeepAlive)

\* The response writeBadRequest serialises
badRequestResponse ==
    BytesHeaders(
        WriteString(
            SetHeader(SetHeader(SetStatus(NewResponse, 400), HdrContentType, TextPlain),
                      HdrConnection, ValClose),
            BodyBadRequest))

\* The response writeNotFound serialises
notFoundResponse(closeConn) ==
    BytesHeaders(
        WriteString(
            setConnectionHeader(SetHeader(SetStatus(NewResponse, 404), HdrContentType, TextPlain),
                                closeConn),
            BodyNotFound))

\* The response writeMethodNotAllowed serialises
methodNotAllowedResponse(allowed, closeConn) ==
    BytesHeaders(
        WriteString(
            setConnectionHeader(
                SetHeader(SetHeader(SetStatus(NewResponse, 405), HdrContentType, TextPlain),
                          HdrAllow, Join(allowed, <<",", " ">>)),
                closeConn),
            BodyMethodNotAllowed))

\* The response writeRoutedResponse serialises after the handler returned resp
routedResponse(resp, closeConn) ==
    BytesHeaders(
        setConnectionHeader(IF resp = NilResponse THEN internalServerErrorResponse ELSE resp,
                            closeConn))

\* isIncompleteParseErr without ErrIncompleteBody
isIncompleteParseErr_HeadOnly(err) == err \in {"ErrIncompleteRequest"}

\* isIncompleteParseErr
isIncompleteParseErr(err) == err \in {"ErrIncompleteRequest", "ErrIncompleteBody"}

\* The route handlers registered on the engine's router, as in server_test.go:
\* a fixed text, the request body, and a handler that returns nil.
HandlerResponse(h, req) ==
    CASE h = "hText" -> WriteString(SetHeader(SetStatus(NewResponse, 200), HdrContentType, TextPlain),
                                    req.Path)
      [] h = "hEcho" -> WriteBytes(SetHeader(SetStatus(NewResponse, 200), HdrContentType, TextPlain),
                                   req.Body)
      [] h = "hNil"  -> NilResponse
      [] OTHER       -> NilResponse

\* writeRoutedResponse, lines 119-125: the answer when no handler resolves
fallbackResponse(allowed, closeConn) ==
    IF Len(allowed) > 0
    THEN methodNotAllowedResponse(allowed, closeConn)
    ELSE notFoundResponse(closeConn)

MLowerPost == <<"p","o","s","t">>
MGet  == <<"G","E","T">>
MPost == <<"P","O","S","T">>
MPut  == <<"P","U","T">>
PathA == <<"/","a">>
PathB == <<"/","b">>
PathN == <<"/","n">>

\* The engine's router: the routes registered before serving starts
EngineRoutes ==
    Register(Register(Register(<<>>, MLowerPost, PathA, "hEcho"),
                      MGet, PathA, "hText"),
             MGet, PathN, "hNil")

\* conn.Write(resp.Bytes()): the call is logged; it succeeds iff the socket is open
ConnWrite(log, resp, open) == Append(log, [resp |-> resp, ok |-> open])

----------------------------------------------------------------------------
(* The client side of one connection: what is put on the wire             *)

\* The longest pipeline of items a client sends on one connection
MaxPipeline == 2

SP == <<" ">>
CRLF == <<"\r", "\n">>
LF == <<"\n">>

\* METHOD SP TARGET SP VERSION nl (header nl)* nl body
WireRequest(method, path, version, headerLines, nl, body) ==
    method \o SP \o path \o SP \o version \o nl
    \o (IF headerLines = <<>> THEN <<>> ELSE Join(headerLines, nl) \o nl)
    \o nl \o body

\* What a client sends, with what it must get back for it: status and body of
\* the answer, whether the server closes after it, the Allow header, and whether
\* a route handler runs for it. kind is "request" for a complete well-formed
\* request, whose method and path are given.
Item(bytes, kind, method, path, status, body, close, allow, routed) ==
    [bytes |-> bytes, kind |-> kind, method |-> method, path |-> path, status |-> status,
     body |-> body, close |-> close, allow |-> allow, routed |-> routed]

Catalogue ==
    << \* routed, HTTP/1.1 without a Connection header: keep-alive
      Item(WireRequest(MGet, PathA, HTTP11, <<>>, CRLF, <<>>),
           "request", MGet, PathA, 200, PathA, FALSE, <<>>, TRUE),
      \* routed through the upper-cased method, with a body, HTTP/1.1 "Close"
      Item(WireRequest(MLowerPost, PathA, HTTP11,
                       << HdrContentLength \o <<":"," ","2">>,
                          HdrConnection \o <<":"," ","C","l","o","s","e">> >>, CRLF, <<"h","i">>),
           "request", MLowerPost, PathA, 200, <<"h","i">>, TRUE, <<>>, TRUE),
      \* path registered for other methods, HTTP/1.0 with keep-alive
      Item(WireRequest(MPut, PathA, HTTP10,
                       << ConnectionKey \o <<":"," ","K","e","e","p","-","A","l","i","v","e"," ">> >>,
                       LF, <<>>),
           "request", MPut, PathA, 405, BodyMethodNotAllowed, FALSE,
           <<"G","E","T",","," ","P","O","S","T">>, FALSE),
      \* path not registered, HTTP/1.0 without a Connection header: close
      Item(WireRequest(MGet, PathB, HTTP10, <<>>, LF, <<>>),
           "request", MGet, PathB, 404, BodyNotFound, TRUE, <<>>, FALSE),
      \* the handler returns nil
      Item(WireRequest(MGet, PathN, HTTP11, <<>>, LF, <<>>),
           "request", MGet, PathN, 500, BodyInternalServerError, FALSE, <<>>, TRUE),
      \* a header line without a colon
      Item(WireRequest(MGet, PathA, HTTP11, << <<"b","a","d">> >>, LF, <<>>),
           "malformed", <<>>, <<>>, 400, BodyBadRequest, TRUE, <<>>, FALSE),
      \* a request cut short
      Item(<<"G","E","T"," ","/","a"," ","H","T">>,
           "partial", <<>>, <<>>, 400, BodyBadRequest, TRUE, <<>>, FALSE) >>

RECURSIVE Pipelines(_)
Pipelines(n) ==
    IF n = 0 THEN {<<>>}
    ELSE LET shorter == Pipelines(n - 1)
         IN  shorter \cup {Append(p, i) : p \in {q \in shorter : Len(q) = n - 1},
                                              i \in 1..Len(Catalogue)}

\* The bytes of a pipeline of items, given by their places in the catalogue
RECURSIVE WireOf(_)
WireOf(items) ==
    IF items = <<>> THEN <<>> ELSE Catalogue[Head(items)].bytes \o WireOf(Tail(items))

----------------------------------------------------------------------------
(* Specification SpecConn: one connection served by the engine             *)

NoCur == [req |-> NoReq, consumed |-> 0, err |-> "none", closeConn |-> FALSE, handler |-> "nil"]

ConnIdle ==
    /\ sent = <<>> /\ wire = <<>> /\ buffer = <<>>
    /\ epc = "closed" /\ cur = NoCur /\ out = <<>> /\ parsed = <<>> /\ invoked = <<>>
    /\ sockOpen = FALSE /\ endReason = "none"

ServeIdle ==
    /\ ctxDone = FALSE /\ lstate = "closed" /\ spc = "idle" /\ conns = {} /\ wg = 0
    /\ cstate = <<>> /\ csock = <<>> /\ wpc = <<>> /\ cresp = FALSE /\ clost = FALSE
    /\ timerFired = FALSE /\ waitDone = FALSE /\ accepted = 0 /\ acceptErrs = FALSE
    /\ forced = FALSE

TimeoutIdle ==
    /\ tpc = "idle" /\ hpc = "idle" /\ responseCh = <<>> /\ panicCh = <<>>
    /\ tctx = "live" /\ parentCtx = "live" /\ tret = NilResponse /\ hkind = "none"
    /\ hseen = {} /\ tsel = "none" /\ tlog = <<>> /\ tvia = "none"

NoProbe == [method |-> <<>>, path |-> <<>>, fallback |-> FALSE, handler |-> "nil",
            resp |-> NilResponse]

\* The router the engine serves with
EngineRouter ==
    /\ routes = EngineRoutes
    /\ registered = {<<MPost, PathA>>, <<MGet, PathA>>, <<MGet, PathN>>}
    /\ probe = NoProbe

\* NewRouter
RouterEmpty ==
    /\ routes = <<>>
    /\ registered = {}
    /\ probe = NoProbe

\* No call of the recovery middleware is under way
RecoveryIdle ==
    /\ rpc = "idle" /\ rreq = NoReq /\ rlogger = FALSE /\ rkind = "none"
    /\ rret = NilResponse /\ rlog = <<>> /\ rescaped = FALSE

\* No middleware is registered and no handler is resolved
ChainIdle ==
    /\ middlewares = <<>> /\ wrapped = <<>> /\ mwsnap = <<>>
    /\ mwdepth = 0 /\ mwpc = "idle" /\ mwtrace = <<>>

\* No response is being written
WriteIdle ==
    /\ wstage = "idle" /\ wkind = "none" /\ wclose = FALSE /\ wresp = NilResponse
    /\ wgiven = <<>> /\ wbytes = <<>>

\* ParseRequest has not been called
NotCalled == [req |-> NoReq, consumed |-> -1, err |-> "notcalled"]

\* The input was not built to a size
NoShape == [family |-> "none", n |-> 0, term |-> "none", blank |-> FALSE, dup |-> FALSE,
            value |-> <<>>, supplied |-> 0]

\* The input was not put together from lines
NoLines == [line |-> <<>>, headers |-> <<>>, body |-> <<>>]

ParserIdle ==
    /\ pdata = <<>> /\ pfed = 0 /\ pres = NotCalled /\ pexact = NotCalled
    /\ pshort = NotCalled /\ pfirst = NotCalled /\ pshape = NoShape
    /\ plines = NoLines /\ plf = NotCalled

NoRequest == [Ctx |-> "unset", usecase |-> "none", cancelled |-> FALSE]
NoCall == [ctx |-> "none", seen |-> "none", err |-> "none"]

\* No engine with a use case behind its routes is running
ContextIdle ==
    /\ gctx = "background" /\ gdone = FALSE /\ gleft = 0 /\ gpc = "idle"
    /\ greq = NoRequest /\ gcall = NoCall /\ gresp = NilResponse /\ ghanded = <<>> /\ gout = <<>>

\* No handleConn is followed for its deadlines
DeadlineIdle ==
    /\ readTimeout = 0 /\ writeTimeout = 0 /\ dpc = "idle" /\ dleft = 0
    /\ dpassed = {} /\ dfail = FALSE /\ devents = <<>>

ChunkIdle == cstream = <<>> /\ cshort = 0

OverlapIdle ==
    /\ otimeout = 0 /\ oleft = 0 /\ opc = "idle" /\ ocur = 0
    /\ otasks = {} /\ ochan = {} /\ oout = <<>>

ResolveIdle == latest = <<>>

BytesIdle == bresp = NilResponse /\ bcaller = FALSE /\ bcalls = 0 /\ bwire = <<>>

LastIdle == ResolveIdle /\ BytesIdle

RestIdle == ChunkIdle /\ OverlapIdle /\ LastIdle

MoreIdle == ContextIdle /\ DeadlineIdle /\ RestIdle

LaterIdle == RecoveryIdle /\ ChainIdle /\ WriteIdle /\ ParserIdle /\ MoreIdle

ConnInit ==
    /\ sent \in Pipelines(MaxPipeline) \ {<<>>}
    /\ wire = WireOf(sent)
    /\ buffer = <<>>
    /\ epc = "drain"
    /\ cur = NoCur
    /\ out = <<>>
    /\ parsed = <<>>
    /\ invoked = <<>>
    /\ sockOpen = TRUE
    /\ endReason = "none"
    /\ ServeIdle /\ TimeoutIdle /\ EngineRouter /\ LaterIdle

\* return, with the deferred conn.Close()
Return(reason) ==
    /\ epc' = "closed"
    /\ sockOpen' = FALSE
    /\ endReason' = reason

\* AfterResponse without line 50: the answered request stays in the buffer
AfterResponse_NoSlice(consumed, closeConn) ==
    IF consumed > Len(buffer)
    THEN Return("overrun") /\ UNCHANGED buffer
    ELSE /\ UNCHANGED buffer
         /\ IF closeConn THEN Return("closeConn")
            ELSE epc' = "drain" /\ UNCHANGED <<sockOpen, endReason>>

\* Lines 47-54: after the response has been written
AfterResponse(consumed, closeConn) ==
    IF consumed > Len(buffer)
    THEN Return("overrun") /\ UNCHANGED buffer
    ELSE /\ buffer' = SubSeq(buffer, consumed + 1, Len(buffer))
         /\ IF closeConn THEN Return("closeConn")
            ELSE epc' = "drain" /\ UNCHANGED <<sockOpen, endReason>>

\* Line 39 with an empty buffer: the inner loop is left, the engine reads
DrainEmpty ==
    /\ epc = "drain" /\ buffer = <<>>
    /\ epc' = "read"
    /\ UNCHANGED <<sent, wire, buffer, cur, out, parsed, invoked, sockOpen, endReason>>
    /\ UNCHANGED <<serveVars, timeoutVars, routerVars, laterVars>>

\* Parse without the loop condition of line 39: the parser is handed the
\* buffer even when it is empty
Parse_Empty ==
    /\ epc = "drain"
    /\ \E pr \in {ParseRequest(buffer)} :
           /\ cur' = [req |-> pr.req, consumed |-> pr.consumed, err |-> pr.err,
                      closeConn |-> FALSE, handler |-> "nil"]
           /\ parsed' = IF pr.err = "nil" THEN Append(parsed, pr.req) ELSE parsed
    /\ epc' = "parsed"
    /\ UNCHANGED <<sent, wire, buffer, out, invoked, sockOpen, endReason>>
    /\ UNCHANGED <<serveVars, timeoutVars, routerVars, laterVars>>

\* Line 40: req, consumed, parseErr := ParseRequest(buffer)
Parse ==
    /\ epc = "drain" /\ buffer # <<>>
    /\ \E pr \in {ParseRequest(buffer)} :
           /\ cur' = [req |-> pr.req, consumed |-> pr.consumed, err |-> pr.err,
                      closeConn |-> FALSE, handler |-> "nil"]
           /\ parsed' = IF pr.err = "nil" THEN Append(parsed, pr.req) ELSE parsed
    /\ epc' = "parsed"
    /\ UNCHANGED <<sent, wire, buffer, out, invoked, sockOpen, endReason>>
    /\ UNCHANGED <<serveVars, timeoutVars, routerVars, laterVars>>

\* writeRoutedResponse when no handler is registered: 405 or 404 is written
DispatchFallback ==
    /\ epc = "parsed" /\ cur.err = "nil"
    /\ LET closeConn == shouldCloseConnection(cur.req)
           rs        == Resolve(routes, cur.req.Method, cur.req.Path)
           allowed   == AllowedMethods(routes, cur.req.Path)
       IN  /\ ~rs.ok \/ rs.handler = "nil"
           /\ out' = ConnWrite(out, fallbackResponse(allowed, closeConn), sockOpen)
           /\ AfterResponse(cur.consumed, closeConn)
    /\ cur' = NoCur
    /\ UNCHANGED <<sent, wire, parsed, invoked>>
    /\ UNCHANGED <<serveVars, timeoutVars, routerVars, laterVars>>

\* writeRoutedResponse when a handler is registered: the handler is invoked
DispatchInvoke ==
    /\ epc = "parsed" /\ cur.err = "nil"
    /\ LET rs == Resolve(routes, cur.req.Method, cur.req.Path)
       IN  /\ rs.ok /\ rs.handler # "nil"
           /\ cur' = [cur EXCEPT !.closeConn = shouldCloseConnection(cur.req),
                                 !.handler = rs.handler]
    /\ invoked' = Append(invoked, Len(parsed))
    /\ epc' = "handler"
    /\ UNCHANGED <<sent, wire, buffer, out, parsed, sockOpen, endReason>>
    /\ UNCHANGED <<serveVars, timeoutVars, routerVars, laterVars>>

\* The handler returns: its response is stamped and written (lines 129-139, 47-54)
HandlerReturn ==
    /\ epc = "handler"
    /\ out' = ConnWrite(out, routedResponse(HandlerResponse(cur.handler, cur.req), cur.closeConn),
                        sockOpen)
    /\ AfterResponse(cur.consumed, cur.closeConn)
    /\ cur' = NoCur
    /\ UNCHANGED <<sent, wire, parsed, invoked>>
    /\ UNCHANGED <<serveVars, timeoutVars, routerVars, laterVars>>

\* Lines 57-59: an incomplete request leaves the inner loop, the engine reads
ParseIncomplete ==
    /\ epc = "parsed" /\ isIncompleteParseErr(cur.err)
    /\ epc' = "read"
    /\ cur' = NoCur
    /\ UNCHANGED <<sent, wire, buffer, out, parsed, invoked, sockOpen, endReason>>
    /\ UNCHANGED <<serveVars, timeoutVars, routerVars, laterVars>>

\* ParseMalformed without the return of line 62: the engine drops the buffer
\* and goes on reading
ParseMalformed_Continue ==
    /\ epc = "parsed" /\ cur.err # "nil" /\ ~isIncompleteParseErr(cur.err)
    /\ out' = ConnWrite(out, badRequestResponse, sockOpen)
    /\ endReason' = "malformed"
    /\ buffer' = <<>>
    /\ epc' = "read"
    /\ cur' = NoCur
    /\ UNCHANGED <<sent, wire, parsed, invoked, sockOpen>>
    /\ UNCHANGED <<serveVars, timeoutVars, routerVars, laterVars>>

\* Lines 61-62: any other parse error is answered with 400 and ends the engine
ParseMalformed ==
    /\ epc = "parsed" /\ cur.err # "nil" /\ ~isIncompleteParseErr(cur.err)
    /\ out' = ConnWrite(out, badRequestResponse, sockOpen)
    /\ Return("malformed")
    /\ cur' = NoCur
    /\ UNCHANGED <<sent, wire, buffer, parsed, invoked>>
    /\ UNCHANGED <<serveVars, timeoutVars, routerVars, laterVars>>

\* conn.Read returns n > 0 bytes and no error
ReadData ==
    /\ epc = "read" /\ sockOpen /\ wire # <<>>
    /\ \E n \in 1..(IF Len(wire) < readChunkSize THEN Len(wire) ELSE readChunkSize) :
          /\ wire' = SubSeq(wire, n + 1, Len(wire))
          /\ buffer' = buffer \o SubSeq(wire, 1, n)
    /\ epc' = "drain"
    /\ UNCHANGED <<sent, cur, out, parsed, invoked, sockOpen, endReason>>
    /\ UNCHANGED <<serveVars, timeoutVars, routerVars, laterVars>>

\* conn.Read returns the last n > 0 bytes of a finished stream together with
\* io.EOF (io.Reader allows both in one call)
ReadDataEOF ==
    /\ epc = "read" /\ sockOpen /\ wire # <<>>
    /\ Len(wire) <= readChunkSize
    /\ wire' = <<>>
    /\ buffer' = buffer \o wire
    /\ out' = ConnWrite(out, badRequestResponse, sockOpen)
    /\ Return("eofWithData")
    /\ UNCHANGED <<sent, cur, parsed, invoked>>
    /\ UNCHANGED <<serveVars, timeoutVars, routerVars, laterVars>>

\* ReadEOF that returns without a write whatever the buffer holds
ReadEOF_Silent ==
    /\ epc = "read" /\ sockOpen /\ wire = <<>>
    /\ Return("eof")
    /\ UNCHANGED <<sent, wire, buffer, cur, out, parsed, invoked>>
    /\ UNCHANGED <<serveVars, timeoutVars, routerVars, laterVars>>

\* conn.Read returns (0, io.EOF): the client has closed its side
ReadEOF ==
    /\ epc = "read" /\ sockOpen /\ wire = <<>>
    /\ IF Len(buffer) = 0
       THEN UNCHANGED out
       ELSE out' = ConnWrite(out, badRequestResponse, sockOpen)
    /\ Return("eof")
    /\ UNCHANGED <<sent, wire, buffer, cur, parsed, invoked>>
    /\ UNCHANGED <<serveVars, timeoutVars, routerVars, laterVars>>

\* conn.Read fails with another error: the read deadline has passed, or the
\* socket has been closed under the engine
ReadError ==
    /\ epc = "read"
    /\ out' = ConnWrite(out, badRequestResponse, sockOpen)
    /\ Return("readError")
    /\ UNCHANGED <<sent, wire, buffer, cur, parsed, invoked>>
    /\ UNCHANGED <<serveVars, timeoutVars, routerVars, laterVars>>

ConnNext ==
    \/ DrainEmpty
    \/ Parse
    \/ DispatchFallback
    \/ DispatchInvoke
    \/ HandlerReturn
    \/ ParseIncomplete
    \/ ParseMalformed
    \/ ReadData
    \/ ReadDataEOF
    \/ ReadEOF
    \/ ReadError

SpecConn == ConnInit /\ [][ConnNext]_vars

\* The pipelines in which a request waits for its bytes behind answered
\* ones: any item, alone or behind requests that keep the connection alive
WaitingPipelines ==
    {p \in Pipelines(MaxPipeline) \ {<<>>} : \A j \in 1..(Len(p) - 1) : p[j] = 1}

ConnFairInit ==
    /\ ConnInit
    /\ sent \in WaitingPipelines

\* The engine runs: it does not stay for ever before a step it takes by
\* itself (each of them changes epc, and between two reads there are finitely
\* many of them); and a read that can return bytes the client has sent is not
\* put off for ever
ConnFairness ==
    /\ []<>(epc \in {"read", "closed"})
    /\ WF_vars(ReadData)

SpecConnFair == ConnFairInit /\ [][ConnNext]_vars /\ ConnFairness

----------------------------------------------------------------------------
(* The router: registration and the routing of one request                 *)

PathColon == <<"/","a",":","/","b">>
MLowerGet == <<"g","e","t">>

RegMethods  == {MGet, MPost, MLowerGet}
RegPaths    == {PathB, PathColon}
ReqMethods  == {MGet, MPost, MLowerGet, MPut}
ReqPaths    == {PathA, PathB, PathColon}
\* The (method, path) pairs the routes are registered for: each method for
\* each path, and the empty method for one path
RegPairs    == (RegMethods \X RegPaths) \cup { << <<>>, PathB >> }

RouterInit ==
    /\ RouterEmpty
    /\ ConnIdle /\ MoreIdle /\ ServeIdle /\ TimeoutIdle /\ LaterIdle

\* Router.Register(method, path, handler)
RouterRegister ==
    /\ \E pair \in RegPairs, handler \in {"hText", "hEcho"} :
          /\ routes' = Register(routes, pair[1], pair[2], handler)
          /\ registered' = registered \cup {<<ToUpper(pair[1]), pair[2]>>}
    /\ probe' = NoProbe
    /\ UNCHANGED <<connVars, serveVars, timeoutVars, laterVars>>

\* writeRoutedResponse for a request with this method and path, up to the
\* point where the fallback is written or the handler is called
RouterDispatch ==
    /\ \E method \in ReqMethods, path \in ReqPaths, closeConn \in BOOLEAN :
          LET rs      == Resolve(routes, method, path)
              allowed == AllowedMethods(routes, path)
          IN  probe' = IF ~rs.ok \/ rs.handler = "nil"
                       THEN [method |-> method, path |-> path, fallback |-> TRUE,
                             handler |-> "nil",
                             resp |-> fallbackResponse(allowed, closeConn)]
                       ELSE [method |-> method, path |-> path, fallback |-> FALSE,
                             handler |-> rs.handler, resp |-> NilResponse]
    /\ UNCHANGED <<routes, registered>>
    /\ UNCHANGED <<connVars, serveVars, timeoutVars, laterVars>>

RouterNext ==
    \/ RouterRegister
    \/ RouterDispatch

SpecRouter == RouterInit /\ [][RouterNext]_vars

\* The upper-cased methods registered for exactly this path
MethodsFor(path) == {pair[1] : pair \in {q \in registered : q[2] = path}}

\* C3: a routed request with no handler registered for its (method, path) is
\* answered 405 "Method Not Allowed" with Allow = the sorted methods registered
\* for exactly that path joined by ", " when there is such a method, and 404
\* "Not Found" when there is none; a request whose (method, path) is
\* registered is not answered by a fallback.
C3_FallbackByPath ==
    probe # NoProbe =>
        IF <<ToUpper(probe.method), probe.path>> \in registered
        THEN ~probe.fallback
        ELSE /\ probe.fallback
             /\ IF MethodsFor(probe.path) # {}
                THEN /\ probe.resp.StatusCode = 405
                     /\ probe.resp.Body = BodyMethodNotAllowed
                     /\ HeaderGet(probe.resp.Headers, HdrAllow) =
                            Join(SortStrings(MethodsFor(probe.path)), <<",", " ">>)
                ELSE /\ probe.resp.StatusCode = 404
                     /\ probe.resp.Body = BodyNotFound

\* The methods a call of AllowedMethods returns
Returned(path) == {AllowedMethods(routes, path)[i] : i \in 1..Len(AllowedMethods(routes, path))}

\* The sequence is ASCII-ascending without a repeated element
StrictlyAscending(q) == \A i \in 1..(Len(q) - 1) : StrLess(q[i], q[i + 1])

\* C22 as stated: for every registered (M, P), M being the method of the
\* router entry, AllowedMethods(P) contains M, is sorted ASCII-ascending and
\* has no duplicates.
C22_AllowedHoldsEveryRegistered ==
    \A pair \in registered :
        /\ pair[1] \in Returned(pair[2])
        /\ StrictlyAscending(AllowedMethods(routes, pair[2]))

\* C22: for every registered (M, P) with M not empty, AllowedMethods(P)
\* contains the upper-cased M; for every path AllowedMethods is sorted
\* ASCII-ascending and has no duplicates; the empty method is never in it.
C22_AllowedHoldsNonEmptyRegistered ==
    /\ \A pair \in registered :
           /\ pair[1] # <<>> => pair[1] \in Returned(pair[2])
           /\ pair[1] = ToUpper(pair[1])
    /\ \A path \in RegPaths \cup ReqPaths :
           /\ StrictlyAscending(AllowedMethods(routes, path))
           /\ <<>> \notin Returned(path)

\* GET and POST are registered for a path, one of them in lower case, and so
\* is the empty method
C22_Witness ==
    /\ {<<MGet, PathB>>, <<MPost, PathB>>, << <<>>, PathB >>} \subseteq registered
    /\ AllowedMethods(routes, PathB) = <<MGet, MPost>>

----------------------------------------------------------------------------
(* The server runtime: serve, handleConn and the goroutines they start.    *)
(* A connection's engine is followed through its blocking points: the      *)
(* read, the handler invocation and the write of the response.             *)

MaxConns == 2

Conns == 1..accepted

Running(c) == cstate[c] \in {"read", "handler", "write"}

ServeInit ==
    /\ ctxDone = FALSE /\ lstate = "open" /\ spc = "accept" /\ conns = {} /\ wg = 0
    /\ cstate = <<>> /\ csock = <<>> /\ wpc = <<>> /\ cresp = FALSE /\ clost = FALSE
    /\ timerFired = FALSE /\ waitDone = FALSE /\ accepted = 0 /\ acceptErrs = FALSE
    /\ forced = FALSE
    /\ ConnIdle /\ TimeoutIdle /\ RouterEmpty /\ LaterIdle

\* The context given to serve is cancelled (main: SIGINT or SIGTERM)
Cancel ==
    /\ ~ctxDone
    /\ ctxDone' = TRUE
    /\ UNCHANGED <<lstate, spc, conns, wg, cstate, csock, wpc, cresp, clost, timerFired,
                   waitDone, accepted, acceptErrs, forced>>
    /\ UNCHANGED <<connVars, timeoutVars, routerVars, laterVars>>

\* serve, lines 182-186: the goroutine that closes the listener on ctx.Done()
CloseListener_Skip ==
    /\ ctxDone /\ lstate = "open"
    /\ UNCHANGED vars

CloseListener ==
    /\ ctxDone /\ lstate = "open"
    /\ lstate' = "closed"
    /\ UNCHANGED <<ctxDone, spc, conns, wg, cstate, csock, wpc, cresp, clost, timerFired,
                   waitDone, accepted, acceptErrs, forced>>
    /\ UNCHANGED <<connVars, timeoutVars, routerVars, laterVars>>

\* serve, lines 189, 198-200: Accept returns a connection; trackConn, wg.Add(1),
\* go handleConn, whose watcher goroutine starts waiting
AcceptConn ==
    /\ spc = "accept" /\ lstate = "open" /\ accepted < MaxConns
    /\ accepted' = accepted + 1
    /\ conns' = conns \cup {accepted + 1}
    /\ wg' = wg + 1
    /\ cstate' = Append(cstate, "read")
    /\ csock' = Append(csock, "open")
    /\ wpc' = Append(wpc, "waiting")
    /\ UNCHANGED <<ctxDone, lstate, spc, cresp, clost, timerFired, waitDone, acceptErrs,
                   forced>>
    /\ UNCHANGED <<connVars, timeoutVars, routerVars, laterVars>>

\* serve, lines 190-196: Accept fails with another error than net.ErrClosed
AcceptError ==
    /\ spc = "accept" /\ lstate = "open"
    /\ acceptErrs' = TRUE
    /\ UNCHANGED <<ctxDone, lstate, spc, conns, wg, cstate, csock, wpc, cresp, clost,
                   timerFired, waitDone, accepted, forced>>
    /\ UNCHANGED <<connVars, timeoutVars, routerVars, laterVars>>

\* serve, lines 190-193, 203-210: Accept fails with net.ErrClosed, the loop
\* ends, the goroutine waiting on s.wg starts and serve enters the select
AcceptClosed ==
    /\ spc = "accept" /\ lstate = "closed"
    /\ spc' = "waiting"
    /\ UNCHANGED <<ctxDone, lstate, conns, wg, cstate, csock, wpc, cresp, clost, timerFired,
                   waitDone, accepted, acceptErrs, forced>>
    /\ UNCHANGED <<connVars, timeoutVars, routerVars, laterVars>>

\* serve, lines 205-208: s.wg.Wait() returns and done is closed
WaitReturns ==
    /\ spc \in {"waiting", "forced"} /\ ~waitDone /\ wg = 0
    /\ waitDone' = TRUE
    /\ UNCHANGED <<ctxDone, lstate, spc, conns, wg, cstate, csock, wpc, cresp, clost,
                   timerFired, accepted, acceptErrs, forced>>
    /\ UNCHANGED <<connVars, timeoutVars, routerVars, laterVars>>

\* time.After(s.shutdownDeadline) fires
TimerFire ==
    /\ spc = "waiting" /\ ~timerFired
    /\ timerFired' = TRUE
    /\ UNCHANGED <<ctxDone, lstate, spc, conns, wg, cstate, csock, wpc, cresp, clost,
                   waitDone, accepted, acceptErrs, forced>>
    /\ UNCHANGED <<connVars, timeoutVars, routerVars, laterVars>>

\* serve, lines 211-212, 220: the select takes <-done and serve returns nil
SelectDone ==
    /\ spc = "waiting" /\ waitDone
    /\ spc' = "returned"
    /\ UNCHANGED <<ctxDone, lstate, conns, wg, cstate, csock, wpc, cresp, clost, timerFired,
                   waitDone, accepted, acceptErrs, forced>>
    /\ UNCHANGED <<connVars, timeoutVars, routerVars, laterVars>>

\* closeTrackedConns: every connection of s.conns is closed
closeTrackedConns(socks) ==
    [c \in DOMAIN socks |-> IF c \in conns THEN "closed" ELSE socks[c]]

\* serve, lines 213-215: the select takes the deadline, closeTrackedConns
SelectDeadline ==
    /\ spc = "waiting" /\ timerFired
    /\ csock' = closeTrackedConns(csock)
    /\ forced' = TRUE
    /\ spc' = "forced"
    /\ UNCHANGED <<ctxDone, lstate, conns, wg, cstate, wpc, cresp, clost, timerFired,
                   waitDone, accepted, acceptErrs>>
    /\ UNCHANGED <<connVars, timeoutVars, routerVars, laterVars>>

\* serve, lines 216-220: <-done after the forced close, serve returns nil
ForcedDone ==
    /\ spc = "forced" /\ waitDone
    /\ spc' = "returned"
    /\ UNCHANGED <<ctxDone, lstate, conns, wg, cstate, csock, wpc, cresp, clost, timerFired,
                   waitDone, accepted, acceptErrs, forced>>
    /\ UNCHANGED <<connVars, timeoutVars, routerVars, laterVars>>

\* handleConn, lines 230-236, with a watcher that takes <-ctx.Done() and
\* leaves the socket as it is
WatcherCloses_NoClose(c) ==
    /\ wpc[c] = "waiting" /\ ctxDone
    /\ wpc' = [wpc EXCEPT ![c] = "done"]
    /\ UNCHANGED <<ctxDone, lstate, spc, conns, wg, cstate, csock, cresp, clost, timerFired,
                   waitDone, accepted, acceptErrs, forced>>
    /\ UNCHANGED <<connVars, timeoutVars, routerVars, laterVars>>

\* handleConn, lines 230-236: the watcher goroutine takes <-ctx.Done() and
\* closes the connection
WatcherCloses(c) ==
    /\ wpc[c] = "waiting" /\ ctxDone
    /\ csock' = [csock EXCEPT ![c] = "closed"]
    /\ wpc' = [wpc EXCEPT ![c] = "done"]
    /\ UNCHANGED <<ctxDone, lstate, spc, conns, wg, cstate, cresp, clost, timerFired,
                   waitDone, accepted, acceptErrs, forced>>
    /\ UNCHANGED <<connVars, timeoutVars, routerVars, laterVars>>

\* handleConn, lines 230-236: the watcher goroutine takes <-done
WatcherEnds(c) ==
    /\ wpc[c] = "waiting" /\ ~Running(c)
    /\ wpc' = [wpc EXCEPT ![c] = "done"]
    /\ UNCHANGED <<ctxDone, lstate, spc, conns, wg, cstate, csock, cresp, clost, timerFired,
                   waitDone, accepted, acceptErrs, forced>>
    /\ UNCHANGED <<connVars, timeoutVars, routerVars, laterVars>>

\* The engine returns: its deferred conn.Close(), then handleConn's deferred
\* close(done)
EngineExit(c) ==
    /\ cstate' = [cstate EXCEPT ![c] = "exited"]
    /\ csock' = [csock EXCEPT ![c] = "closed"]

\* The engine's conn.Read returns a request, which is routed to a handler
ClientRequest(c) ==
    /\ cstate[c] = "read" /\ csock[c] = "open"
    /\ cstate' = [cstate EXCEPT ![c] = "handler"]
    /\ UNCHANGED <<ctxDone, lstate, spc, conns, wg, csock, wpc, cresp, clost, timerFired,
                   waitDone, accepted, acceptErrs, forced>>
    /\ UNCHANGED <<connVars, timeoutVars, routerVars, laterVars>>

\* The engine's conn.Read ends with EOF or an error on the open socket (the
\* client has left, or the read deadline has passed): the engine returns
ClientGone(c) ==
    /\ cstate[c] = "read" /\ csock[c] = "open"
    /\ EngineExit(c)
    /\ UNCHANGED <<ctxDone, lstate, spc, conns, wg, wpc, cresp, clost, timerFired,
                   waitDone, accepted, acceptErrs, forced>>
    /\ UNCHANGED <<connVars, timeoutVars, routerVars, laterVars>>

\* The engine's conn.Read fails because the socket has been closed under it
ReadFail(c) ==
    /\ cstate[c] = "read" /\ csock[c] = "closed"
    /\ EngineExit(c)
    /\ UNCHANGED <<ctxDone, lstate, spc, conns, wg, wpc, cresp, clost, timerFired,
                   waitDone, accepted, acceptErrs, forced>>
    /\ UNCHANGED <<connVars, timeoutVars, routerVars, laterVars>>

\* The handler invocation returns
HandlerDone(c) ==
    /\ c \in Conns
    /\ cstate[c] = "handler"
    /\ cstate' = [cstate EXCEPT ![c] = "write"]
    /\ UNCHANGED <<ctxDone, lstate, spc, conns, wg, csock, wpc, cresp, clost, timerFired,
                   waitDone, accepted, acceptErrs, forced>>
    /\ UNCHANGED <<connVars, timeoutVars, routerVars, laterVars>>

\* The engine writes the response, ignoring the result of conn.Write, and
\* either returns (close) or goes back to reading (keep-alive)
EngineWrite(c) ==
    /\ cstate[c] = "write"
    /\ cresp' = (cresp \/ csock[c] = "open")
    /\ clost' = (clost \/ csock[c] = "closed")
    /\ \E closeConn \in BOOLEAN :
          IF closeConn THEN EngineExit(c)
          ELSE cstate' = [cstate EXCEPT ![c] = "read"] /\ UNCHANGED csock
    /\ UNCHANGED <<ctxDone, lstate, spc, conns, wg, wpc, timerFired,
                   waitDone, accepted, acceptErrs, forced>>
    /\ UNCHANGED <<connVars, timeoutVars, routerVars, laterVars>>

\* handleConn without its deferred untrackConn
untrackConn_Skip(c) ==
    /\ cstate[c] = "exited"
    /\ cstate' = [cstate EXCEPT ![c] = "untracked"]
    /\ UNCHANGED <<ctxDone, lstate, spc, conns, wg, csock, wpc, cresp, clost, timerFired,
                   waitDone, accepted, acceptErrs, forced>>
    /\ UNCHANGED <<connVars, timeoutVars, routerVars, laterVars>>

\* handleConn, line 226: the deferred s.untrackConn(conn)
untrackConn(c) ==
    /\ cstate[c] = "exited"
    /\ cstate' = [cstate EXCEPT ![c] = "untracked"]
    /\ conns' = conns \ {c}
    /\ UNCHANGED <<ctxDone, lstate, spc, wg, csock, wpc, cresp, clost, timerFired,
                   waitDone, accepted, acceptErrs, forced>>
    /\ UNCHANGED <<connVars, timeoutVars, routerVars, laterVars>>

\* wgDone that takes two from the counter
wgDone_Twice(c) ==
    /\ cstate[c] = "untracked"
    /\ cstate' = [cstate EXCEPT ![c] = "finished"]
    /\ wg' = wg - 2
    /\ UNCHANGED <<ctxDone, lstate, spc, conns, csock, wpc, cresp, clost, timerFired,
                   waitDone, accepted, acceptErrs, forced>>
    /\ UNCHANGED <<connVars, timeoutVars, routerVars, laterVars>>

\* handleConn, line 225: the deferred s.wg.Done(), which runs last
wgDone(c) ==
    /\ cstate[c] = "untracked"
    /\ cstate' = [cstate EXCEPT ![c] = "finished"]
    /\ wg' = wg - 1
    /\ UNCHANGED <<ctxDone, lstate, spc, conns, csock, wpc, cresp, clost, timerFired,
                   waitDone, accepted, acceptErrs, forced>>
    /\ UNCHANGED <<connVars, timeoutVars, routerVars, laterVars>>

\* The goroutine of serve
ServeStep ==
    \/ AcceptClosed
    \/ SelectDone
    \/ SelectDeadline
    \/ ForcedDone

\* The goroutine of handleConn for connection c, where only the closed
\* socket lets it go on
ConnStep(c) ==
    /\ c \in Conns
    /\ \/ ReadFail(c)
       \/ EngineWrite(c)
       \/ untrackConn(c)
       \/ wgDone(c)

WatcherStep(c) ==
    /\ c \in Conns
    /\ \/ WatcherCloses(c)
       \/ WatcherEnds(c)

ServeNext ==
    \/ Cancel
    \/ CloseListener
    \/ AcceptConn
    \/ AcceptError
    \/ WaitReturns
    \/ TimerFire
    \/ ServeStep
    \/ \E c \in Conns : ClientRequest(c)
    \/ \E c \in Conns : ClientGone(c)
    \/ \E c \in Conns : HandlerDone(c)
    \/ \E c \in Conns : ConnStep(c)
    \/ \E c \in Conns : WatcherStep(c)

SpecServe == ServeInit /\ [][ServeNext]_vars

\* Every goroutine of the runtime goes on when it can; handlers are not
\* required to return
ServeFairness ==
    /\ WF_vars(CloseListener)
    /\ WF_vars(WaitReturns)
    /\ WF_vars(TimerFire)
    /\ WF_vars(ServeStep)
    /\ \A c \in 1..MaxConns : WF_vars(ConnStep(c)) /\ WF_vars(WatcherStep(c))

SpecServeForce == SpecServe /\ ServeFairness

\* ... and every handler invocation returns
SpecServeFair ==
    SpecServe /\ ServeFairness /\ \A c \in 1..MaxConns : WF_vars(HandlerDone(c))

\* The goroutines of the connections alone: every engine and every watcher
\* goes on when it can and every handler invocation returns, while serve
\* itself may be as slow as it likes
SpecServeConns ==
    SpecServe /\ \A c \in 1..MaxConns :
                    WF_vars(ConnStep(c)) /\ WF_vars(WatcherStep(c)) /\ WF_vars(HandlerDone(c))

----------------------------------------------------------------------------
(* Claims about the server runtime                                         *)

\* C5: as long as the shutdown deadline has not fired, the socket of every
\* connection whose engine is still running is open, and no response has been
\* written to a closed socket.
C5_NoCloseBeforeDeadline ==
    ~timerFired =>
        /\ \A c \in Conns : Running(c) => csock[c] = "open"
        /\ ~clost

\* C6: after cancellation the listener gets closed, no connection is accepted
\* once it is closed, and serve returns nil, every handler invocation
\* returning; the accept loop is left only when the listener is closed.
C6_CancelLeadsToReturn ==
    /\ ctxDone ~> (lstate = "closed")
    /\ ctxDone ~> (spc = "returned")
    /\ [][lstate = "closed" => accepted' = accepted]_vars
    /\ [][(spc = "accept" /\ spc' # "accept") => lstate = "closed"]_vars

\* serve has returned after a transient accept error, two connections and a
\* response that reached its client
C6_Witness ==
    /\ spc = "returned" /\ ctxDone /\ acceptErrs
    /\ accepted = 2
    /\ cresp

\* C7: once the deadline has fired and the runtime has closed the tracked
\* connections, serve returns, whatever the remaining engines were doing.
C7_ForcedCloseLeadsToReturn ==
    forced ~> (spc = "returned")

\* C8: whenever serve has returned, the active-connection set is empty.
C8_ReturnedEmpty ==
    spc = "returned" => conns = {}

\* serve has returned after the forced close of two connections
C8_Witness ==
    /\ spc = "returned" /\ forced
    /\ accepted = 2

\* C30: a connection is in the active set and counted in the wait counter
\* from the step that accepts it, before its engine runs; it has one engine,
\* whose positions it goes through once; it is taken from the active set
\* after its engine has exited and from the wait counter after that, each
\* once; the wait counter is never negative, and a connection whose engine
\* runs is in the active set.
C30_TrackedAndCountedOnce ==
    /\ [](/\ wg >= 0
          /\ \A c \in Conns : Running(c) => c \in conns
          /\ conns = {c \in Conns : cstate[c] \in {"read", "handler", "write", "exited"}}
          /\ wg = Cardinality({c \in Conns : cstate[c] # "finished"})
          /\ Len(cstate) = accepted)
    /\ [][/\ (accepted' # accepted) =>
                 (/\ accepted' = accepted + 1
                  /\ conns' = conns \cup {accepted'} /\ accepted' \notin conns
                  /\ wg' = wg + 1
                  /\ cstate'[accepted'] = "read")
          /\ (accepted' = accepted) => (conns' \subseteq conns /\ wg' <= wg)
          /\ \A c \in Conns :
                 /\ (c \in conns /\ c \notin conns') =>
                        (cstate[c] = "exited" /\ cstate'[c] = "untracked" /\ wg' = wg)
                 /\ (cstate[c] # "finished" /\ cstate'[c] = "finished") =>
                        (cstate[c] = "untracked" /\ wg' = wg - 1 /\ conns' = conns)
                 /\ cstate[c] \in {"exited", "untracked", "finished"} => ~Running(c)'
          ]_vars

\* The first connection has been taken from the active set and from the
\* wait counter while the engine of the second one is in a handler
C30_Witness ==
    /\ accepted = 2
    /\ cstate[1] = "finished" /\ cstate[2] = "handler"
    /\ conns = {2} /\ wg = 1

----------------------------------------------------------------------------
(* The timeout middleware: one call of the handler TimeoutMiddleware(T)    *)
(* returns, with T > 0                                                     *)

\* safeResponse
safeResponse_Pass(resp) == resp

safeResponse(resp) ==
    IF resp # NilResponse THEN resp ELSE internalServerErrorResponse

\* safeInvoke, on what the next handler returns
safeInvoke(resp) == safeResponse(resp)

\* TimeoutMiddleware, lines 107-115, with every end of the context answered 408
ctxDoneResponse_Always408(err) ==
    WriteString(SetHeader(SetStatus(NewResponse, 408), HdrContentType, TextPlain),
                BodyRequestTimeout)

\* TimeoutMiddleware, lines 107-115: the case <-timeoutCtx.Done()
ctxDoneResponse(err) ==
    IF err # "deadline"
    THEN internalServerErrorResponse
    ELSE WriteString(SetHeader(SetStatus(NewResponse, 408), HdrContentType, TextPlain),
                     BodyRequestTimeout)

\* TimeoutMiddleware, lines 98-104: the case <-panicCh
panicResponse ==
    WriteString(SetHeader(SetStatus(NewResponse, 500), HdrContentType, TextPlain),
                BodyInternalServerError)

\* What the downstream handler returns
OkResponse ==
    WriteString(SetHeader(SetStatus(NewResponse, 200), HdrContentType, TextPlain),
                <<"o","k">>)
CreatedResponse == WriteString(SetStatus(NewResponse, 201), <<"i","d">>)

HandlerKinds == {"ok", "created", "nil", "panic"}

HandlerResult(kind) ==
    CASE kind = "ok"      -> OkResponse
      [] kind = "created" -> CreatedResponse
      [] OTHER            -> NilResponse

\* Lines 81-96: the derived context, the two channels and the goroutine of the
\* handler exist; the request's own context may be cancelled already
TimeoutInit ==
    /\ tpc = "start" /\ tsel = "none"
    /\ hpc = "running"
    /\ responseCh = <<>> /\ panicCh = <<>>
    /\ parentCtx \in {"live", "canceled"}
    /\ tctx = parentCtx
    /\ tret = NilResponse
    /\ hkind \in HandlerKinds
    /\ hseen = {}
    /\ tlog = IF parentCtx = "canceled" THEN <<"cancel">> ELSE <<>>
    /\ tvia = "none"
    /\ ConnIdle /\ ServeIdle /\ RouterEmpty /\ LaterIdle

\* An event reaches the call: a call blocked in its select is handed the case
Deliver(case, event) ==
    /\ IF tpc = "parked"
       THEN tpc' = "woken" /\ tsel' = case /\ tvia' = "wake"
       ELSE UNCHANGED <<tpc, tsel, tvia>>
    /\ tlog' = IF tpc \in {"start", "parked"} THEN Append(tlog, event) ELSE tlog

\* The deadline of context.WithTimeout passes
DeadlineFire ==
    /\ tctx = "live"
    /\ tctx' = "deadline"
    /\ Deliver("ctx", "deadline")
    /\ UNCHANGED <<hpc, responseCh, panicCh, parentCtx, tret, hkind, hseen>>
    /\ UNCHANGED <<connVars, serveVars, routerVars, laterVars>>

\* The request's own context is cancelled
ParentCancel ==
    /\ parentCtx = "live"
    /\ parentCtx' = "canceled"
    /\ IF tctx = "live"
       THEN tctx' = "canceled" /\ Deliver("ctx", "cancel")
       ELSE UNCHANGED <<tctx, tpc, tsel, tvia, tlog>>
    /\ UNCHANGED <<hpc, responseCh, panicCh, tret, hkind, hseen>>
    /\ UNCHANGED <<connVars, serveVars, routerVars, laterVars>>

\* The handler consults the context of the request it was given
HandlerObserve ==
    /\ hpc = "running"
    /\ tctx \notin hseen
    /\ hseen' = hseen \cup {tctx}
    /\ UNCHANGED <<tpc, tsel, hpc, responseCh, panicCh, tctx, parentCtx, tret, hkind, tlog,
                   tvia>>
    /\ UNCHANGED <<connVars, serveVars, routerVars, laterVars>>

\* HandlerReturns with an unbuffered responseCh: the send waits for the
\* select of the call to receive
HandlerReturns_Unbuffered ==
    /\ hpc = "running" /\ hkind # "panic"
    /\ tpc \in {"start", "parked"}
    /\ hpc' = "done"
    /\ responseCh' = Append(responseCh, safeInvoke(HandlerResult(hkind)))
    /\ Deliver("response", "response")
    /\ UNCHANGED <<panicCh, tctx, parentCtx, tret, hkind, hseen>>
    /\ UNCHANGED <<connVars, serveVars, routerVars, laterVars>>

\* Lines 88-96: the handler returns and its result is sent on responseCh,
\* made with room for one value (line 85)
HandlerReturns ==
    /\ hpc = "running" /\ hkind # "panic"
    /\ Len(responseCh) < 1
    /\ hpc' = "done"
    /\ responseCh' = Append(responseCh, safeInvoke(HandlerResult(hkind)))
    /\ Deliver("response", "response")
    /\ UNCHANGED <<panicCh, tctx, parentCtx, tret, hkind, hseen>>
    /\ UNCHANGED <<connVars, serveVars, routerVars, laterVars>>

\* Lines 88-93: the handler panics, the deferred function recovers the value
\* and sends it on panicCh, made with room for one value (line 86)
HandlerPanics ==
    /\ hpc = "running" /\ hkind = "panic"
    /\ Len(panicCh) < 1
    /\ hpc' = "done"
    /\ panicCh' = Append(panicCh, "panic")
    /\ Deliver("panic", "panic")
    /\ UNCHANGED <<responseCh, tctx, parentCtx, tret, hkind, hseen>>
    /\ UNCHANGED <<connVars, serveVars, routerVars, laterVars>>

\* The cases of the select that can proceed
ReadyCases ==
    (IF panicCh # <<>> THEN {"panic"} ELSE {})
    \cup (IF responseCh # <<>> THEN {"response"} ELSE {})
    \cup (IF tctx # "live" THEN {"ctx"} ELSE {})

\* Lines 98-115 with the deferred cancel() of line 82: the call returns through the case
ReturnThrough(case) ==
    /\ tret' = CASE case = "panic"    -> panicResponse
                 [] case = "response" -> safeResponse(responseCh[1])
                 [] OTHER             -> ctxDoneResponse(tctx)
    /\ responseCh' = IF case = "response" THEN Tail(responseCh) ELSE responseCh
    /\ panicCh' = IF case = "panic" THEN Tail(panicCh) ELSE panicCh
    /\ tctx' = IF tctx = "live" THEN "canceled" ELSE tctx
    /\ tpc' = "returned"

\* Line 97: the select finds no case ready and blocks
SelectBlocks ==
    /\ tpc = "start" /\ ReadyCases = {}
    /\ tpc' = "parked"
    /\ UNCHANGED <<tsel, hpc, responseCh, panicCh, tctx, parentCtx, tret, hkind, hseen, tlog,
                   tvia>>
    /\ UNCHANGED <<connVars, serveVars, routerVars, laterVars>>

\* Line 97: the select finds cases ready and takes one of them
SelectPolls ==
    /\ tpc = "start"
    /\ \E case \in ReadyCases :
          /\ ReturnThrough(case)
          /\ tsel' = case
    /\ tvia' = "poll"
    /\ UNCHANGED <<hpc, parentCtx, hkind, hseen, tlog>>
    /\ UNCHANGED <<connVars, serveVars, routerVars, laterVars>>

\* Line 97: the blocked select resumes with the case it was handed
SelectWakes ==
    /\ tpc = "woken"
    /\ ReturnThrough(tsel)
    /\ UNCHANGED <<tsel, hpc, parentCtx, hkind, hseen, tlog, tvia>>
    /\ UNCHANGED <<connVars, serveVars, routerVars, laterVars>>

TimeoutNext ==
    \/ DeadlineFire
    \/ ParentCancel
    \/ HandlerObserve
    \/ HandlerReturns
    \/ HandlerPanics
    \/ SelectBlocks
    \/ SelectPolls
    \/ SelectWakes

SpecTimeout == TimeoutInit /\ [][TimeoutNext]_vars

----------------------------------------------------------------------------
(* Claims about the timeout middleware                                     *)

IsGeneric500(resp) ==
    /\ resp.StatusCode = 500
    /\ resp.Body = BodyInternalServerError
    /\ HeaderGet(resp.Headers, HdrContentType) = TextPlain

IsTimeout408(resp) ==
    /\ resp.StatusCode = 408
    /\ resp.Body = BodyRequestTimeout
    /\ HeaderGet(resp.Headers, HdrContentType) = TextPlain

\* The response the claim gives for an event
Matches(resp, event) ==
    CASE event = "response" -> IF hkind = "nil" THEN IsGeneric500(resp)
                               ELSE resp = HandlerResult(hkind)
      [] event = "deadline" -> IsTimeout408(resp)
      [] OTHER              -> IsGeneric500(resp)

C35_TaskNeverBlocks ==
    /\ [](hpc = "running" => ENABLED (HandlerReturns \/ HandlerPanics))
    /\ [](Len(responseCh) + Len(panicCh) <= 1)
    /\ [][(hpc = "running" /\ hpc' = "done" /\ tpc = "returned") =>
              /\ tpc' = "returned" /\ tret' = tret
              /\ Len(responseCh') + Len(panicCh') = 1
              /\ (hkind = "panic") = (panicCh' # <<>>)]_vars

\* The call has returned the 408 and the handler has panicked after that:
\* the recovered value lies in panicCh
C35_Witness ==
    /\ tpc = "returned" /\ IsTimeout408(tret)
    /\ hkind = "panic" /\ hpc = "done"
    /\ panicCh = <<"panic">> /\ responseCh = <<>>

----------------------------------------------------------------------------
(* The recovery middleware: one call of the handler RecoveryMiddleware     *)
(* returns                                                                 *)

XRequestID     == <<"x","-","r","e","q","u","e","s","t","-","i","d">>
XCorrelationID == <<"x","-","c","o","r","r","e","l","a","t","i","o","n","-","i","d">>

\* requestMethod, requestPath: a nil request gives the empty string
requestMethod(req) == IF req = NoReq THEN <<>> ELSE req.Method
requestPath(req)   == IF req = NoReq THEN <<>> ELSE req.Path

\* requestIdentifiers: <<request id, correlation id>>
requestIdentifiers(req) ==
    IF req = NoReq \/ req.Headers = <<>> THEN << <<>>, <<>> >>
    ELSE <<TrimSpace(HeaderGet(req.Headers, XRequestID)),
           TrimSpace(HeaderGet(req.Headers, XCorrelationID))>>

\* logError: nothing is logged through a nil logger
logError(log, logger, entry) == IF ~logger THEN log ELSE Append(log, entry)

\* The deferred function of RecoveryMiddleware with the named result left
\* unassigned: the panic is logged and nil is returned
recoverDeferred_NoResponse(req, logger, log) ==
    [resp    |-> NilResponse,
     log     |-> logError(log, logger,
                          [level |-> "error", msg |-> "panic recovered",
                           method |-> requestMethod(req), path |-> requestPath(req),
                           request_id |-> requestIdentifiers(req)[1],
                           correlation_id |-> requestIdentifiers(req)[2]]),
     escaped |-> FALSE]

\* The deferred function of RecoveryMiddleware (lines 50-66) while the
\* downstream call panics: recover() stops the panic, the error is logged
\* and the named result is set to a fresh 500
recoverDeferred(req, logger, log) ==
    [resp    |-> WriteString(SetHeader(SetStatus(NewResponse, 500), HdrContentType, TextPlain),
                             BodyInternalServerError),
     log     |-> logError(log, logger,
                          [level |-> "error", msg |-> "panic recovered",
                           method |-> requestMethod(req), path |-> requestPath(req),
                           request_id |-> requestIdentifiers(req)[1],
                           correlation_id |-> requestIdentifiers(req)[2]]),
     escaped |-> FALSE]

ReqID  == <<"r","e","q","-","7","8","9">>
CorrID == <<"c","o","r","r","-","7","8","9">>
PathPanic == <<"/","p","a","n","i","c">>

\* The requests the middleware is called with: nil, one without headers, one
\* with both identifiers, one with the request identifier only
RecoveryRequests ==
    { NoReq,
      [Method |-> MGet, Path |-> PathPanic, Version |-> HTTP11, Headers |-> <<>>, Body |-> <<>>],
      [Method |-> MGet, Path |-> PathPanic, Version |-> HTTP11,
       Headers |-> (XRequestID :> ReqID) @@ (XCorrelationID :> CorrID), Body |-> <<>>],
      [Method |-> MPost, Path |-> PathA, Version |-> HTTP10,
       Headers |-> (XRequestID :> ReqID), Body |-> <<"h","i">>] }

\* What is downstream of the middleware: a handler of one of HandlerKinds,
\* or no handler at all (next == nil)
RecoveryKinds == HandlerKinds \cup {"nonext"}

RecoveryInit ==
    /\ rpc = "start"
    /\ rreq \in RecoveryRequests
    /\ rlogger \in BOOLEAN
    /\ rkind \in RecoveryKinds
    /\ rret = NilResponse
    /\ rlog = <<>>
    /\ rescaped = FALSE
    /\ ConnIdle /\ MoreIdle /\ ServeIdle /\ TimeoutIdle /\ RouterEmpty /\ ChainIdle /\ WriteIdle /\ ParserIdle

\* Line 68 with a handler downstream: safeInvoke calls next(req)
RecoveryInvoke ==
    /\ rpc = "start" /\ rkind # "nonext"
    /\ rpc' = "downstream"
    /\ UNCHANGED <<rreq, rlogger, rkind, rret, rlog, rescaped>>
    /\ UNCHANGED <<coreVars, moreVars, chainVars, writeVars, parserVars>>

\* Line 68 with next == nil: safeInvoke returns the generic 500 (lines 141-143)
RecoveryNoNext ==
    /\ rpc = "start" /\ rkind = "nonext"
    /\ rret' = internalServerErrorResponse
    /\ rpc' = "returned"
    /\ UNCHANGED <<rreq, rlogger, rkind, rlog, rescaped>>
    /\ UNCHANGED <<coreVars, moreVars, chainVars, writeVars, parserVars>>

\* The handler returns: safeInvoke normalises its result, the deferred
\* function finds nothing to recover
RecoveryHandlerReturns ==
    /\ rpc = "downstream" /\ rkind \in {"ok", "created", "nil"}
    /\ rret' = safeInvoke(HandlerResult(rkind))
    /\ rpc' = "returned"
    /\ UNCHANGED <<rreq, rlogger, rkind, rlog, rescaped>>
    /\ UNCHANGED <<coreVars, moreVars, chainVars, writeVars, parserVars>>

\* The handler panics: the deferred function runs with the panic
RecoveryHandlerPanics ==
    /\ rpc = "downstream" /\ rkind = "panic"
    /\ LET d == recoverDeferred(rreq, rlogger, rlog)
       IN  /\ rret' = d.resp
           /\ rlog' = d.log
           /\ rescaped' = d.escaped
    /\ rpc' = "returned"
    /\ UNCHANGED <<rreq, rlogger, rkind>>
    /\ UNCHANGED <<coreVars, moreVars, chainVars, writeVars, parserVars>>

RecoveryNext ==
    \/ RecoveryInvoke
    \/ RecoveryNoNext
    \/ RecoveryHandlerReturns
    \/ RecoveryHandlerPanics

SpecRecovery == RecoveryInit /\ [][RecoveryNext]_vars

----------------------------------------------------------------------------
(* Claims about the recovery middleware                                    *)

\* The one error entry of the claim: it carries the request's method, path
\* and the two identifiers
IsPanicEntry(entry, req) ==
    /\ entry.level = "error"
    /\ entry.method = requestMethod(req)
    /\ entry.path = requestPath(req)
    /\ entry.request_id = (IF req = NoReq THEN <<>> ELSE HeaderGet(req.Headers, XRequestID))
    /\ entry.correlation_id =
           (IF req = NoReq THEN <<>> ELSE HeaderGet(req.Headers, XCorrelationID))

\* What the claim says of a call whose handler panicked
PanicRecovered ==
    /\ IsGeneric500(rret)
    /\ ~rescaped
    /\ IF rlogger THEN Len(rlog) = 1 /\ IsPanicEntry(rlog[1], rreq) ELSE rlog = <<>>

\* C11 as stated: a panic of the downstream handler gives the 500 "Internal
\* Server Error" with Content-Type text/plain, does not reach the caller and,
\* with a logger, is logged as one error entry with method, path, request_id
\* and correlation_id; without a panic the handler's response is returned
\* unchanged and nothing is logged.
C11_RecoversOrPassesUnchanged ==
    rpc = "returned" =>
        IF rkind = "panic" THEN PanicRecovered
        ELSE /\ rkind # "nonext" => rret = HandlerResult(rkind)
             /\ rlog = <<>>

\* C11, amended: a panic of the downstream handler gives the 500 "Internal
\* Server Error" with Content-Type text/plain, does not reach the caller and,
\* with a logger, is logged as one error entry with method, path, request_id
\* and correlation_id (nothing is logged without a logger); without a panic
\* nothing is logged, a response the handler returned is passed on unchanged
\* and a nil result, or a missing handler, is answered with that same 500.
C11_RecoversOrNormalises ==
    /\ rpc = "returned" =>
           IF rkind = "panic" THEN PanicRecovered
           ELSE /\ rkind \in {"ok", "created"} => rret = HandlerResult(rkind)
                /\ rkind \in {"nil", "nonext"} => IsGeneric500(rret)
                /\ rlog = <<>>
    /\ rpc # "returned" => rret = NilResponse /\ rlog = <<>>

\* A panic has been recovered for a request with both identifiers and logged
C11_Witness ==
    /\ rpc = "returned" /\ rkind = "panic" /\ rlogger
    /\ XCorrelationID \in DOMAIN rreq.Headers
    /\ Len(rlog) = 1 /\ rlog[1].request_id = ReqID /\ rlog[1].correlation_id = CorrID
    /\ IsGeneric500(rret)

----------------------------------------------------------------------------
(* The middleware chain: Router.Use, Router.Resolve and one call of the    *)
(* handler Resolve returned                                                *)

\* The most middlewares registered on the router
MaxMiddlewares == 3

\* A middleware is nil, or does work before and after calling its next
\* handler ("pass"), or does its work and returns without calling it ("stop")
MiddlewareKinds == {"pass", "stop", "nil"}

\* applyMiddleware with the loop running from the first middleware to the last
RECURSIVE applyMiddleware_Ascending(_, _)
applyMiddleware_Ascending(w, mws) ==
    IF mws = <<>> THEN w
    ELSE LET i == Len(mws)
         IN  IF mws[i] = "nil"
             THEN applyMiddleware_Ascending(w, SubSeq(mws, 1, i - 1))
             ELSE applyMiddleware_Ascending(Append(w, [i |-> i, kind |-> mws[i]]),
                                            SubSeq(mws, 1, i - 1))

\* applyMiddleware: the loop runs from the last middleware to the first, each
\* non-nil one wrapping what has been built so far. w holds the layers
\* around the route handler, outermost first.
RECURSIVE applyMiddleware(_, _)
applyMiddleware(w, mws) ==
    IF mws = <<>> THEN w
    ELSE LET i == Len(mws)
         IN  IF mws[i] = "nil"
             THEN applyMiddleware(w, SubSeq(mws, 1, i - 1))
             ELSE applyMiddleware(<<[i |-> i, kind |-> mws[i]]>> \o w, SubSeq(mws, 1, i - 1))

\* A router with one route and no middleware
ChainInit ==
    /\ middlewares = <<>>
    /\ wrapped = <<>>
    /\ mwsnap = <<>>
    /\ mwdepth = 0
    /\ mwpc = "setup"
    /\ mwtrace = <<>>
    /\ routes = Register(<<>>, MGet, PathA, "hText")
    /\ registered = {<<MGet, PathA>>}
    /\ probe = NoProbe
    /\ ConnIdle /\ MoreIdle /\ ServeIdle /\ TimeoutIdle /\ RecoveryIdle /\ WriteIdle /\ ParserIdle

\* Router.Use
Use ==
    /\ Len(middlewares) < MaxMiddlewares
    /\ \E m \in MiddlewareKinds : middlewares' = Append(middlewares, m)
    /\ UNCHANGED <<wrapped, mwsnap, mwdepth, mwpc, mwtrace>>
    /\ UNCHANGED <<coreVars, moreVars, recoveryVars, writeVars, parserVars>>

\* Router.Resolve on a registered route: the chain is copied and applied
ChainResolve ==
    /\ mwpc = "setup"
    /\ Resolve(routes, MGet, PathA).ok
    /\ wrapped' = applyMiddleware(<<>>, middlewares)
    /\ mwsnap' = middlewares
    /\ mwpc' = "resolved"
    /\ UNCHANGED <<middlewares, mwdepth, mwtrace>>
    /\ UNCHANGED <<coreVars, moreVars, recoveryVars, writeVars, parserVars>>

\* Router.Resolve on a route that is not registered: nil, false
ChainResolveMiss ==
    /\ mwpc = "setup"
    /\ ~Resolve(routes, MPost, PathA).ok
    /\ mwpc' = "miss"
    /\ UNCHANGED <<middlewares, wrapped, mwsnap, mwdepth, mwtrace>>
    /\ UNCHANGED <<coreVars, moreVars, recoveryVars, writeVars, parserVars>>

\* The caller invokes the resolved handler
ChainCall ==
    /\ mwpc = "resolved"
    /\ mwpc' = "down"
    /\ UNCHANGED <<middlewares, wrapped, mwsnap, mwdepth, mwtrace>>
    /\ UNCHANGED <<coreVars, moreVars, recoveryVars, writeVars, parserVars>>

\* The next layer is entered: it does its work, and calls its next handler
\* or not
ChainBefore ==
    /\ mwpc = "down" /\ mwdepth < Len(wrapped)
    /\ mwdepth' = mwdepth + 1
    /\ mwtrace' = Append(mwtrace, <<"before", wrapped[mwdepth + 1].i>>)
    /\ mwpc' = IF wrapped[mwdepth + 1].kind = "stop" THEN "up" ELSE "down"
    /\ UNCHANGED <<middlewares, wrapped, mwsnap>>
    /\ UNCHANGED <<coreVars, moreVars, recoveryVars, writeVars, parserVars>>

\* The innermost layer calls the route handler, which returns
ChainRouteHandler ==
    /\ mwpc = "down" /\ mwdepth = Len(wrapped)
    /\ mwtrace' = Append(mwtrace, <<"handler", 0>>)
    /\ mwpc' = "up"
    /\ UNCHANGED <<middlewares, wrapped, mwsnap, mwdepth>>
    /\ UNCHANGED <<coreVars, moreVars, recoveryVars, writeVars, parserVars>>

\* A layer gets control back, finishes its work and returns
ChainAfter ==
    /\ mwpc = "up" /\ mwdepth > 0
    /\ mwtrace' = Append(mwtrace, <<"after", wrapped[mwdepth].i>>)
    /\ mwdepth' = mwdepth - 1
    /\ UNCHANGED <<middlewares, wrapped, mwsnap, mwpc>>
    /\ UNCHANGED <<coreVars, moreVars, recoveryVars, writeVars, parserVars>>

\* The outermost layer has returned to the caller
ChainReturn ==
    /\ mwpc = "up" /\ mwdepth = 0
    /\ mwpc' = "done"
    /\ UNCHANGED <<middlewares, wrapped, mwsnap, mwdepth, mwtrace>>
    /\ UNCHANGED <<coreVars, moreVars, recoveryVars, writeVars, parserVars>>

ChainNext ==
    \/ Use
    \/ ChainResolve
    \/ ChainResolveMiss
    \/ ChainCall
    \/ ChainBefore
    \/ ChainRouteHandler
    \/ ChainAfter
    \/ ChainReturn

SpecChain == ChainInit /\ [][ChainNext]_vars

----------------------------------------------------------------------------
(* Claims about the middleware chain                                       *)

\* The places of the non-nil middlewares of a registration, in order
RECURSIVE LivePlaces(_, _)
LivePlaces(mws, from) ==
    IF from > Len(mws) THEN <<>>
    ELSE (IF mws[from] = "nil" THEN <<>> ELSE <<from>>) \o LivePlaces(mws, from + 1)

\* The work the claim gives for the middlewares at these places
RECURSIVE ClaimedTrace(_, _)
ClaimedTrace(mws, places) ==
    IF places = <<>> THEN << <<"handler", 0>> >>
    ELSE IF mws[places[1]] = "stop" THEN << <<"before", places[1]>>, <<"after", places[1]>> >>
    ELSE << <<"before", places[1]>> >> \o ClaimedTrace(mws, Tail(places))
         \o << <<"after", places[1]>> >>

IsPrefix(a, b) == Len(a) <= Len(b) /\ a = SubSeq(b, 1, Len(a))

\* C12: the handler Resolve returns for middlewares m1..mk runs the
\* before-work of m1, then m2, ..., then the route handler, then the
\* after-work of mk, ..., and of m1 last; nil entries are skipped; below a
\* middleware that does not call its next handler nothing runs. Middlewares
\* registered after Resolve are not part of the handler.
C12_ChainOrder ==
    /\ IsPrefix(mwtrace, ClaimedTrace(mwsnap, LivePlaces(mwsnap, 1)))
    /\ mwpc = "done" => mwtrace = ClaimedTrace(mwsnap, LivePlaces(mwsnap, 1))
    /\ mwpc \in {"setup", "miss", "resolved"} => mwtrace = <<>>

\* A call went through a first middleware, skipped a nil one and was stopped
\* by the third: the route handler did not run
C12_Witness ==
    /\ mwpc = "done" /\ mwsnap = <<"pass", "nil", "stop">>
    /\ mwtrace = << <<"before", 1>>, <<"before", 3>>, <<"after", 3>>, <<"after", 1>> >>

----------------------------------------------------------------------------
(* One response on its way to the wire: the handler builds it, the engine  *)
(* stamps the Connection header, Response.Bytes serialises it              *)

\* statusText
statusText(code) ==
    CASE code = 200 -> <<"O","K">>
      [] code = 201 -> <<"C","r","e","a","t","e","d">>
      [] code = 204 -> <<"N","o"," ","C","o","n","t","e","n","t">>
      [] code = 400 -> BodyBadRequest
      [] code = 401 -> <<"U","n","a","u","t","h","o","r","i","z","e","d">>
      [] code = 404 -> BodyNotFound
      [] code = 405 -> BodyMethodNotAllowed
      [] code = 408 -> BodyRequestTimeout
      [] code = 500 -> BodyInternalServerError
      [] OTHER      -> <<"U","n","k","n","o","w","n">>

\* The orders in which a range over the map r.Headers can visit its keys
RECURSIVE KeyOrders(_)
KeyOrders(keys) ==
    IF keys = {} THEN {<<>>}
    ELSE UNION {{<<k>> \o o : o \in KeyOrders(keys \ {k})} : k \in keys}

\* Response.Bytes, lines 61-66: the header lines, in the order of the range
RECURSIVE HeaderLines(_, _)
HeaderLines(headers, order) ==
    IF Len(order) = 0 THEN <<>>
    ELSE order[1] \o <<":", " ">> \o headers[order[1]] \o CRLF
         \o HeaderLines(headers, Tail(order))

\* Response.Bytes, lines 54-70: the wire form of a response whose headers
\* are complete
Serialise(r, order) ==
    HTTP11 \o SP \o Itoa(r.StatusCode) \o SP \o statusText(r.StatusCode) \o CRLF
    \o HeaderLines(r.Headers, order)
    \o CRLF
    \o r.Body

\* What a handler sets on its response
HdrConnectionLower    == ConnectionKey
HdrContentLengthLower == ContentLengthKey
HandlerHeaders ==
    { <<HdrContentType, TextPlain>>,
      <<HdrConnection, ValClose>>,
      <<HdrConnectionLower, ValClose>>,
      <<HdrConnectionLower, ValKeepAlive>>,
      <<HdrContentLength, <<"2">> >>,
      <<HdrContentLengthLower, <<"9">> >> }
HandlerBodies == { <<"h","i">>, CRLF \o CRLF }
HandlerStatuses == {599}

\* writeRoutedResponse has the decision closeConn and calls the handler, or
\* writes one of its own answers
WriteInit ==
    /\ wstage = "handler"
    /\ wkind \in {"routed", "nilresp", "notfound", "notallowed"}
    /\ wclose \in BOOLEAN
    /\ wresp = IF wkind = "routed" THEN NewResponse ELSE NilResponse
    /\ wgiven = <<>>
    /\ wbytes = <<>>
    /\ ConnIdle /\ MoreIdle /\ ServeIdle /\ TimeoutIdle /\ RouterEmpty /\ RecoveryIdle /\ ChainIdle /\ ParserIdle

\* The handler calls resp.SetHeader
HandlerSetHeader ==
    /\ wstage = "handler" /\ wkind = "routed"
    /\ \E h \in HandlerHeaders : wresp' = SetHeader(wresp, h[1], h[2])
    /\ UNCHANGED <<wstage, wkind, wclose, wgiven, wbytes>>
    /\ UNCHANGED <<coreVars, moreVars, recoveryVars, chainVars, parserVars>>

\* The handler calls resp.WriteBytes or resp.WriteString
HandlerWriteBody ==
    /\ wstage = "handler" /\ wkind = "routed"
    /\ \E b \in HandlerBodies : wresp' = WriteBytes(wresp, b)
    /\ UNCHANGED <<wstage, wkind, wclose, wgiven, wbytes>>
    /\ UNCHANGED <<coreVars, moreVars, recoveryVars, chainVars, parserVars>>

\* The handler sets resp.StatusCode
HandlerSetStatus ==
    /\ wstage = "handler" /\ wkind = "routed"
    /\ \E code \in HandlerStatuses : wresp' = SetStatus(wresp, code)
    /\ UNCHANGED <<wstage, wkind, wclose, wgiven, wbytes>>
    /\ UNCHANGED <<coreVars, moreVars, recoveryVars, chainVars, parserVars>>

\* The handler has returned (lines 129-139), or no handler resolved (lines
\* 119-126): the response is stamped, completed by Bytes and written
WriteResponse ==
    /\ wstage = "handler"
    /\ LET final == CASE wkind = "notfound"   -> notFoundResponse(wclose)
                       [] wkind = "notallowed" -> methodNotAllowedResponse(<<MGet, MPost>>, wclose)
                       [] OTHER                -> routedResponse(wresp, wclose)
       IN  /\ wresp' = final
           /\ \E order \in KeyOrders(DOMAIN final.Headers) : wbytes' = Serialise(final, order)
    /\ wgiven' = wresp.Headers
    /\ wstage' = "written"
    /\ UNCHANGED <<wkind, wclose>>
    /\ UNCHANGED <<coreVars, moreVars, recoveryVars, chainVars, parserVars>>

WriteNext ==
    \/ HandlerSetHeader
    \/ HandlerWriteBody
    \/ HandlerSetStatus
    \/ WriteResponse

SpecWrite == WriteInit /\ [][WriteNext]_vars

----------------------------------------------------------------------------
(* Claims about the responses on the wire                                  *)

\* What a reader of the wire sees: the header lines between the status
\* line and the first blank line, as [name, value], and the bytes after it
WireHead(w) == SubSeq(w, 1, Index(w, CRLF \o CRLF))
WireAfterHead(w) == SubSeq(w, Index(w, CRLF \o CRLF) + 5, Len(w))
WireFields(w) ==
    LET lines == Tail(splitLines(WireHead(w)))
    IN  [i \in 1..Len(lines) |->
            [name  |-> SubSeq(lines[i], 1, Index(lines[i], <<":">>)),
             value |-> SubSeq(lines[i], Index(lines[i], <<":">>) + 3, Len(lines[i]))]]

\* The header lines of that name, in any letter case, on the wire
WireNamed(w, name) ==
    LET fields == WireFields(w)
    IN  {j \in 1..Len(fields) : EqualFold(fields[j].name, name)}

\* The values the wire carries under a header name, in any letter case
WireValues(w, name) ==
    LET fields == WireFields(w)
    IN  {fields[j].value : j \in WireNamed(w, name)}

\* The number of header lines of that name on the wire
WireCount(w, name) == Cardinality(WireNamed(w, name))

\* C13: every response the engine writes for a parsed request carries
\* Connection: close when the connection closes after it and Connection:
\* keep-alive otherwise, whatever Connection header, in any letter case, the
\* handler had set: the wire carries no other Connection value.
C13_OnlyTheStampedConnection ==
    wstage = "written" =>
        WireValues(wbytes, HdrConnection) = {IF wclose THEN ValClose ELSE ValKeepAlive}

C15_ContentLengthAddedIffAbsent ==
    wstage = "written" =>
        LET given == {k \in DOMAIN wgiven : EqualFold(k, HdrContentLength)}
            fields == WireFields(wbytes)
            lines == {fields[j] : j \in WireNamed(wbytes, HdrContentLength)}
        IN  IF given = {}
            THEN /\ lines = {[name |-> HdrContentLength, value |-> Itoa(Len(wresp.Body))]}
                 /\ WireCount(wbytes, HdrContentLength) = 1
            ELSE /\ lines = {[name |-> k, value |-> wgiven[k]] : k \in given}
                 /\ WireCount(wbytes, HdrContentLength) = Cardinality(given)

\* A response whose handler set content-length in lower case went out with
\* that header only
C15_Witness ==
    /\ wstage = "written"
    /\ DOMAIN wgiven = {HdrContentLengthLower}
    /\ WireCount(wbytes, HdrContentLength) = 1
    /\ WireValues(wbytes, HdrContentLength) = { <<"9">> }

\* The order in which the headers of the written response were inserted,
\* where the state tells it: the answers the engine builds itself, and a
\* routed response on which the handler had set at most one header. The
\* engine then sets Connection, and Bytes adds Content-Length when no header
\* of that name, in any letter case, is there.
OrderKnown == wkind # "routed" \/ Cardinality(DOMAIN wgiven) <= 1

InsertionOrder ==
    IF wkind = "notallowed"
    THEN <<HdrContentType, HdrAllow, HdrConnection, HdrContentLength>>
    ELSE IF wkind \in {"notfound", "nilresp"}
    THEN <<HdrContentType, HdrConnection, HdrContentLength>>
    ELSE LET set     == IF DOMAIN wgiven = {} THEN <<>>
                        ELSE <<CHOOSE k \in DOMAIN wgiven : TRUE>>
             stamped == IF HdrConnection \in DOMAIN wgiven THEN set
                        ELSE Append(set, HdrConnection)
         IN  IF hasHeaderIgnoreCase(wgiven, HdrContentLength) THEN stamped
             ELSE Append(stamped, HdrContentLength)

\* C29: the wire carries each header of the response exactly once, as a
\* line "Name: Value" ended by CRLF, and the header lines stand in the order
\* in which the headers were inserted.
C29_HeaderLinesInInsertionOrder ==
    (wstage = "written" /\ OrderKnown) =>
        LET fields == WireFields(wbytes)
        IN  /\ Len(fields) = Cardinality(DOMAIN wresp.Headers)
            /\ \A k \in DOMAIN wresp.Headers :
                   Cardinality({j \in 1..Len(fields) :
                                    fields[j] = [name |-> k, value |-> wresp.Headers[k]]}) = 1
            /\ [j \in 1..Len(fields) |-> fields[j].name] = InsertionOrder

----------------------------------------------------------------------------
(* The parser on its own: ParseRequest on a buffer that grows piece by     *)
(* piece, as the buffer of the engine does                                 *)

\* The most pieces an input is put together from
MaxPieces == 4

\* The pieces: request lines ended by CRLF and by LF, one of two parts and
\* one of another version, a header line, line ends whole and in part, a
\* body byte
Pieces ==
    { MGet \o SP \o PathA \o SP \o HTTP11 \o CRLF,
      MGet \o SP \o PathA \o SP \o HTTP10 \o LF,
      MGet \o SP \o PathA \o CRLF,
      MGet \o SP \o SP \o PathA \o SP \o <<"H","T","T","P","/","2",".","0">> \o CRLF,
      HdrContentLength \o <<":", " ", "1">> \o CRLF,
      CRLF,
      LF,
      <<"\r">>,
      <<"x">> }

ParserInit ==
    /\ pdata = <<>>
    /\ pfed = 0
    /\ pres = NotCalled
    /\ pexact = NotCalled
    /\ pshort = NotCalled
    /\ pfirst = NotCalled
    /\ pshape = NoShape
    /\ plines = NoLines /\ plf = NotCalled
    /\ ConnIdle /\ MoreIdle /\ ServeIdle /\ TimeoutIdle /\ RouterEmpty
    /\ RecoveryIdle /\ ChainIdle /\ WriteIdle

\* More bytes are appended to the buffer and ParseRequest is called on it
ParserFeed ==
    /\ pfed < MaxPieces
    /\ \E piece \in Pieces : pdata' = pdata \o piece
    /\ pfed' = pfed + 1
    /\ pres' = ParseRequest(pdata')
    /\ pfirst' = IF pfirst = NotCalled /\ pres'.err = "nil" /\ pres'.consumed = Len(pdata')
                 THEN pres' ELSE pfirst
    /\ pexact' = NotCalled
    /\ pshort' = NotCalled
    /\ UNCHANGED <<pshape, plines, plf>>
    /\ UNCHANGED <<coreVars, moreVars, recoveryVars, chainVars, writeVars>>

\* ParseRequest is called on the bytes it reported as consumed, and on one
\* byte less
ParserPrefixes ==
    /\ pres.err = "nil" /\ pexact = NotCalled
    /\ pexact' = ParseRequest(SubSeq(pdata, 1, pres.consumed))
    /\ pshort' = ParseRequest(SubSeq(pdata, 1, pres.consumed - 1))
    /\ UNCHANGED <<pdata, pfed, pres, pfirst, pshape, plines, plf>>
    /\ UNCHANGED <<coreVars, moreVars, recoveryVars, chainVars, writeVars>>

ParserNext ==
    \/ ParserFeed
    \/ ParserPrefixes

SpecParser == ParserInit /\ [][ParserNext]_vars

----------------------------------------------------------------------------
(* Claims about the parser on growing input                                *)

\* C16: when ParseRequest(B) is a request with n bytes consumed, then
\* ParseRequest on the first n bytes of B is a request too, and on the first
\* n-1 bytes it is an error (incomplete or malformed), never a request.
C16_ConsumedIsExact ==
    pexact # NotCalled =>
        /\ pexact.err = "nil"
        /\ pshort.err \notin {"nil", "notcalled"}

\* A request with a body, followed by more bytes, was parsed, and again on
\* its own n bytes and on n-1 of them
C16_Witness ==
    /\ pexact # NotCalled /\ pexact.err = "nil"
    /\ pres.req.Body = <<"x">>
    /\ pshort.err = "ErrIncompleteBody"

\* C17: when ParseRequest(S) is a request that consumes all of S, then for
\* any bytes X ParseRequest(S ++ X) is the same request with the same number
\* of bytes consumed, which is the start of the body plus Content-Length.
C17_FollowingBytesChangeNothing ==
    /\ pfirst # NotCalled => pres = pfirst
    /\ pres.err = "nil" =>
           pres.consumed = findHeaderDelimiter(pdata)[1] + findHeaderDelimiter(pdata)[2]
                           + (IF ContentLengthKey \in DOMAIN pres.req.Headers
                              THEN Atoi(pres.req.Headers[ContentLengthKey]).n ELSE 0)

\* A request that took the whole buffer is followed by a further blank line
C17_Witness ==
    /\ pfirst # NotCalled /\ pres = pfirst
    /\ Len(pdata) >= pfirst.consumed + 2
    /\ SubSeq(pdata, pfirst.consumed + 1, pfirst.consumed + 2) = <<"\n", "\n">>

\* C23: the request line is the first non-empty line of the header block;
\* when it does not split on runs of whitespace into exactly three parts the
\* result is ErrMalformedRequestLine, when its third part is neither HTTP/1.1
\* nor HTTP/1.0 the result is ErrInvalidHTTPVersion, and otherwise the result
\* is neither of these errors and a parsed request has the three parts as
\* its method, path and version.
C23_FirstNonEmptyLineIsRequestLine ==
    LET hd == findHeaderDelimiter(pdata)
    IN  (pres # NotCalled /\ hd[1] >= 0 /\ hd[1] <= 16384) =>
            LET lines    == splitLines(SubSeq(pdata, 1, hd[1]))
                nonEmpty == {i \in 1..Len(lines) : TrimSpace(lines[i]) # <<>>}
            IN  nonEmpty # {} =>
                    LET parts == Fields(lines[Min(nonEmpty)])
                    IN  IF Len(parts) # 3 THEN pres.err = "ErrMalformedRequestLine"
                        ELSE IF parts[3] \notin {HTTP11, HTTP10}
                        THEN pres.err = "ErrInvalidHTTPVersion"
                        ELSE /\ pres.err \notin {"ErrMalformedRequestLine",
                                                 "ErrInvalidHTTPVersion"}
                             /\ pres.err = "nil" =>
                                    /\ pres.req.Method = parts[1]
                                    /\ pres.req.Path = parts[2]
                                    /\ pres.req.Version = parts[3]

----------------------------------------------------------------------------
(* The parser at its limits: ParseRequest on inputs built to a size        *)

\* The most bytes a header line that fills a header block takes with its
\* line end, when it is not the last one
PadLineBytes == 340

LimitRequestLine == MPost \o SP \o PathA \o SP \o HTTP11

EOL(term) == IF term = "lf" THEN LF ELSE CRLF

Terminator(term) == IF term = "none" THEN <<>> ELSE EOL(term) \o EOL(term)

Repeat(c, n) == [i \in 1..n |-> c]

\* The byte strings of a sequence, one after the other
RECURSIVE Flatten(_)
Flatten(ss) ==
    IF ss = <<>> THEN <<>>
    ELSE IF Len(ss) = 1 THEN ss[1]
    ELSE Flatten(SubSeq(ss, 1, Len(ss) \div 2))
             \o Flatten(SubSeq(ss, Len(ss) \div 2 + 1, Len(ss)))

\* Header lines "p:aaa...", each behind a line end, that take r bytes in
\* all: lines of PadLineBytes and a last one of what is left
PadLines(r, eol) ==
    IF r = 0 THEN <<>>
    ELSE LET m == IF r <= 2 * PadLineBytes THEN 0
                  ELSE (r - PadLineBytes - 1) \div PadLineBytes
         IN  Flatten([i \in 1..(m + 1) |->
                 eol \o <<"p", ":">>
                     \o Repeat("a", (IF i <= m THEN PadLineBytes ELSE r - m * PadLineBytes)
                                        - Len(eol) - 2)])

Shape(family, n, term, blank, dup, value, supplied) ==
    [family |-> family, n |-> n, term |-> term, blank |-> blank, dup |-> dup,
     value |-> value, supplied |-> supplied]

\* Header blocks of n bytes, ended by either terminator or by none; and the
\* empty input
BlockShapes ==
    { Shape("block", n, t, FALSE, FALSE, <<>>, 0) :
        n \in {100, 16383, 16384, 16385, 16484}, t \in {"crlf", "lf", "none"} }
    \cup { Shape("block", 0, "none", FALSE, FALSE, <<>>, 0) }

BlockInput(sh) ==
    IF sh.n = 0 THEN <<>>
    ELSE LimitRequestLine
             \o PadLines(sh.n - Len(LimitRequestLine), EOL(sh.term))
             \o Terminator(sh.term)

\* n header lines "x-i: v", or n times "x: v"; with a line of one space
\* before the last of them or without
CountShapes ==
    { Shape("count", n, t, blank, dup, <<>>, 0) :
        n \in {0, 1, 49, 50, 51, 52}, t \in {"crlf", "lf"},
        blank \in BOOLEAN, dup \in BOOLEAN }

CountLines(sh) ==
    Flatten([i \in 1..sh.n |->
        EOL(sh.term)
            \o (IF sh.blank /\ i = sh.n THEN <<" ">> \o EOL(sh.term) ELSE <<>>)
            \o (IF sh.dup THEN <<"x">> ELSE <<"x", "-">> \o Itoa(i))
            \o <<":", " ", "v">>])

CountInput(sh) == LimitRequestLine \o CountLines(sh) \o Terminator(sh.term)

\* Content-Length values: not a length, a length within the limit (with the
\* number it stands for), a length above the limit, a decimal number above
\* the largest int
BadLengths ==
    { <<>>, <<"a","b","c">>, <<"1","x">>, <<"1",".","5">>, <<"-","1">>,
      <<"-">> \o Itoa(262145) }

GoodLengths ==
    { <<Itoa(v), v>> : v \in {0, 1, 5, 262144} } \cup { << <<"0","0","7">>, 7 >> }

LargeLengths == { Itoa(262145), Itoa(300000), Itoa(99999999), Itoa(123456789), IntMax }

BeyondIntLengths == { SubSeq(IntMax, 1, IntMaxDigits - 1) \o <<"8">>, IntMax \o <<"0">> }

\* Each value with no body byte behind the head and with one; a length
\* within the limit with one byte too few, the very number, one too many
LengthShapes ==
    { Shape("length", 0, "crlf", FALSE, FALSE, v, k) :
        v \in BadLengths \cup LargeLengths \cup BeyondIntLengths, k \in {0, 1} }
    \cup { Shape("length", x[1][2], "crlf", FALSE, FALSE, x[1][1], x[1][2] + x[2]) :
             x \in {y \in GoodLengths \X {-1, 0, 1} : y[1][2] + y[2] >= 0} }

LengthInput(sh) ==
    LimitRequestLine \o CRLF \o HdrContentLength \o <<":", " ">> \o sh.value
        \o CRLF \o CRLF \o Repeat("b", sh.supplied)

LimitShapes == BlockShapes \cup CountShapes \cup LengthShapes

InputOf(sh) ==
    CASE sh.family = "block"  -> BlockInput(sh)
      [] sh.family = "count"  -> CountInput(sh)
      [] sh.family = "length" -> LengthInput(sh)

LimitsInit ==
    /\ pshape \in LimitShapes
    /\ pdata = InputOf(pshape)
    /\ pfed = 0
    /\ pres = NotCalled
    /\ pexact = NotCalled
    /\ pshort = NotCalled
    /\ pfirst = NotCalled
    /\ plines = NoLines /\ plf = NotCalled
    /\ ConnIdle /\ MoreIdle /\ ServeIdle /\ TimeoutIdle /\ RouterEmpty
    /\ RecoveryIdle /\ ChainIdle /\ WriteIdle

\* ParseRequest is called on the input
LimitsParse ==
    /\ pres = NotCalled
    /\ pres' = ParseRequest(pdata)
    /\ UNCHANGED <<pdata, pfed, pexact, pshort, pfirst, pshape, plines, plf>>
    /\ UNCHANGED <<coreVars, moreVars, recoveryVars, chainVars, writeVars>>

LimitsNext == LimitsParse

SpecLimits == LimitsInit /\ [][LimitsNext]_vars

----------------------------------------------------------------------------
(* Claims about the limits of the parser                                   *)

IsDecimal(v) == v # <<>> /\ \A i \in 1..Len(v) : IsDigit(v[i])

\* A value of decimal digits stands for a number greater than 262,144
Above262144(v) ==
    LET sig == StripZeros(v)
    IN  Len(sig) > 6 \/ (Len(sig) = 6 /\ DecVal(sig) > 262144)

\* C19: for a content-length request header, an empty, non-decimal or
\* negative value is ErrInvalidContentLength; every decimal value greater
\* than 262,144 is ErrBodyTooLarge, with no body byte in the input or with
\* some; a value from 0 to 262,144 is accepted when the input holds that
\* many bytes behind the head, and the body is exactly these bytes.
C19_ContentLengthDecides ==
    (pshape.family = "length" /\ pres # NotCalled) =>
        IF ~IsDecimal(pshape.value) THEN pres.err = "ErrInvalidContentLength"
        ELSE IF Above262144(pshape.value) THEN pres.err = "ErrBodyTooLarge"
        ELSE pshape.supplied >= DecVal(StripZeros(pshape.value)) =>
                 /\ pres.err = "nil"
                 /\ Len(pres.req.Body) = DecVal(StripZeros(pshape.value))
                 /\ pres.req.Body = SubSeq(pdata, Len(pdata) - pshape.supplied + 1,
                                           Len(pdata) - pshape.supplied + Len(pres.req.Body))

\* C20: a request with 50 header lines parses and one with 51 or more is
\* ErrTooManyHeaders, whether the names differ or repeat; a whitespace-only
\* line among them is not counted; every parsed request has at most 50
\* entries in its header map.
C20_HeaderCountLimit ==
    /\ (pshape.family = "count" /\ pres # NotCalled) =>
           /\ Cardinality({i \in 1..Len(pdata) : pdata[i] = ":"}) = pshape.n
           /\ IF pshape.n <= 50
              THEN /\ pres.err = "nil"
                   /\ Cardinality(DOMAIN pres.req.Headers) =
                          IF pshape.dup /\ pshape.n > 0 THEN 1 ELSE pshape.n
              ELSE pres.err = "ErrTooManyHeaders"
    /\ pres.err = "nil" => Cardinality(DOMAIN pres.req.Headers) <= 50

\* A request with 50 header lines of different names and a whitespace-only
\* line among them was parsed
C20_Witness ==
    /\ pshape.family = "count" /\ pshape.n = 50 /\ pshape.blank /\ ~pshape.dup
    /\ pres.err = "nil"
    /\ Cardinality(DOMAIN pres.req.Headers) = 50

----------------------------------------------------------------------------
(* The parser on a request put together from lines: the same lines spelled *)
(* with CRLF line ends and with LF line ends                               *)

\* The most header lines of a request
MaxHeaderLines == 3

RequestLines ==
    { MGet \o SP \o PathA \o SP \o HTTP11,
      MPost \o SP \o PathA \o SP \o HTTP10 }

HdrHostUpper == <<"H","O","S","T">>
HostKey      == <<"h","o","s","t">>

\* Header lines: names in mixed case, in upper case and with whitespace
\* around name and value, a value with a colon in it, a whitespace-only
\* line, and lines that hold a carriage return of their own
HeaderLineChoices ==
    { HdrContentLength \o <<":", " ", "1">>,
      SP \o HdrHostUpper \o SP \o <<":">> \o SP \o SP \o <<"a", ":", "b">> \o SP,
      <<"H","o","s","t",":","c">>,
      <<"\t">> \o ToLower(HdrContentLength) \o <<":", "0", "\t">>,
      SP,
      HdrContentLength \o <<":", " ", "1", "\r">>,
      <<"\r">> }

LineBodies == { <<>>, <<"x">>, CRLF \o CRLF }

\* The bytes of the request: the request line and the header lines, each
\* followed by the line end, then the line end again and the body
Spell(r, eol) ==
    r.line \o eol \o Flatten([i \in 1..Len(r.headers) |-> r.headers[i] \o eol])
           \o eol \o r.body

LinesInit ==
    /\ plines \in [line : RequestLines,
                   headers : UNION {[1..n -> HeaderLineChoices] : n \in 0..MaxHeaderLines},
                   body : LineBodies]
    /\ pdata = Spell(plines, CRLF)
    /\ pfed = 0
    /\ pres = NotCalled
    /\ pexact = NotCalled
    /\ pshort = NotCalled
    /\ pfirst = NotCalled
    /\ pshape = NoShape
    /\ plf = NotCalled
    /\ ConnIdle /\ MoreIdle /\ ServeIdle /\ TimeoutIdle /\ RouterEmpty
    /\ RecoveryIdle /\ ChainIdle /\ WriteIdle

\* ParseRequest is called on the request spelled with CRLF and on the same
\* request spelled with LF
LinesParse ==
    /\ plines # NoLines /\ pres = NotCalled
    /\ pres' = ParseRequest(pdata)
    /\ plf' = ParseRequest(Spell(plines, LF))
    /\ UNCHANGED <<pdata, pfed, pexact, pshort, pfirst, pshape, plines>>
    /\ UNCHANGED <<coreVars, moreVars, recoveryVars, chainVars, writeVars>>

LinesNext == LinesParse

SpecLines == LinesInit /\ [][LinesNext]_vars

----------------------------------------------------------------------------
(* Claims about the lines of a request                                     *)

HasCR(line) == \E i \in 1..Len(line) : line[i] = "\r"

\* No line of the request holds a carriage return of its own
NoStrayCR(r) == ~HasCR(r.line) /\ \A i \in 1..Len(r.headers) : ~HasCR(r.headers[i])

\* C24 as stated: for any request whose header block uses CRLF line ends and
\* that parses, the same request with every CRLF of the header block and of
\* the terminator replaced by LF parses to the same method, path, version,
\* headers and body.
C24_LFParsesAsCRLF ==
    (plines # NoLines /\ pres.err = "nil") =>
        /\ plf.err = "nil"
        /\ plf.req = pres.req

\* C24 for lines without a carriage return of their own: when no line of the
\* header block holds a carriage return and the request spelled with CRLF
\* parses, the request spelled with LF parses to the same method, path,
\* version, headers and body.
C24_LFParsesAsCRLFWithoutStrayCR ==
    (plines # NoLines /\ NoStrayCR(plines) /\ pres.err = "nil") =>
        /\ plf.err = "nil"
        /\ plf.req = pres.req

\* A request of three header lines and a body that starts with CRLF CRLF
\* parsed the same in both spellings, each with its own count of bytes
C24_Witness ==
    /\ plines # NoLines /\ NoStrayCR(plines)
    /\ Len(plines.headers) = 3 /\ plines.body = CRLF \o CRLF
    /\ pres.err = "nil" /\ plf.err = "nil" /\ plf.req = pres.req
    /\ pres.req.Body = <<"\r">>
    /\ pres.consumed = plf.consumed + 5

\* The name and the value a header line spells: the text before its first
\* colon and the text behind it
NameOf(line) == SubSeq(line, 1, Index(line, <<":">>))
ValueOf(line) == SubSeq(line, Index(line, <<":">>) + 2, Len(line))

\* The header lines of the request that are not whitespace only, by place
HeaderPlaces(r) == {i \in 1..Len(r.headers) : TrimSpace(r.headers[i]) # <<>>}

\* s is t without the whitespace at its two ends
IsTrimOf(s, t) ==
    /\ s # <<>> => ~IsSpace(s[1]) /\ ~IsSpace(s[Len(s)])
    /\ \E a \in 0..Len(t) :
           /\ a + Len(s) <= Len(t)
           /\ s = SubSeq(t, a + 1, a + Len(s))
           /\ \A i \in (1..a) \cup ((a + Len(s) + 1)..Len(t)) : IsSpace(t[i])

\* n is m with its upper-case letters replaced by their lower-case ones
IsLowerOf(n, m) ==
    /\ Len(n) = Len(m)
    /\ \A i \in 1..Len(n) :
           IF \E k \in 1..26 : UpperBytes[k] = m[i]
           THEN \E k \in 1..26 : UpperBytes[k] = m[i] /\ LowerBytes[k] = n[i]
           ELSE n[i] = m[i]

\* n is the name the line spells, trimmed and in lower case
IsNameOf(n, line) ==
    \E a \in 0..Len(NameOf(line)) :
        /\ a + Len(n) <= Len(NameOf(line))
        /\ IsLowerOf(n, SubSeq(NameOf(line), a + 1, a + Len(n)))
        /\ IsTrimOf(SubSeq(NameOf(line), a + 1, a + Len(n)), NameOf(line))

\* C25: the parsed request holds a header for exactly the names its header
\* lines spell, each name in lower case with the whitespace around it
\* trimmed; the value held for a name is the trimmed value of the last line
\* that spells the name, whatever the case it is spelled in.
C25_NamesLowerTrimmedLastWins ==
    (plines # NoLines /\ pres.err = "nil") =>
        LET hs == pres.req.Headers
        IN  /\ \A i \in HeaderPlaces(plines) :
                   \E n \in DOMAIN hs : IsNameOf(n, plines.headers[i])
            /\ \A n \in DOMAIN hs :
                   LET spelled == {i \in HeaderPlaces(plines) : IsNameOf(n, plines.headers[i])}
                   IN  /\ spelled # {}
                       /\ \A i \in spelled :
                              (\A j \in spelled : j <= i) =>
                                  IsTrimOf(hs[n], ValueOf(plines.headers[i]))

\* A request that spells Host twice, in two cases and with whitespace, and
\* Content-Length in lower case between tabs: the second Host value is held
C25_Witness ==
    /\ plines # NoLines /\ pres.err = "nil"
    /\ Len(plines.headers) = 3
    /\ plines.headers[1] = <<"H","o","s","t",":","c">>
    /\ plines.headers[2] = SP \o HdrHostUpper \o SP \o <<":">> \o SP \o SP \o <<"a", ":", "b">> \o SP
    /\ DOMAIN pres.req.Headers = {HostKey, ContentLengthKey}
    /\ pres.req.Headers[HostKey] = <<"a", ":", "b">>
    /\ pres.req.Headers[ContentLengthKey] = <<"0">>

----------------------------------------------------------------------------
(* The engine's context on its way to a use case: the engine serves the    *)
(* requests of one connection from a router whose routes are use cases     *)
(* behind AdaptUseCaseHandler                                              *)

\* The most requests a client sends on the connection
MaxContextRequests == 2

\* The use cases behind the routes: one that waits for ctx.Done() and returns
\* ctx.Err() (server_test.go), one that returns ctx.Err() at once, one that
\* succeeds, one for each domain error, one for any other error, and a nil
\* handler
UseCases == {"cancelAware", "ctxErr", "ok", "ErrBadRequest", "ErrUnauthorized",
             "ErrNotFound", "other", "nil"}

\* Request.Context that returns context.Background() whatever Ctx holds
Context_Background(req) == "background"

\* Request.Context: context.Background() when the Ctx field is nil
Context(req) == IF req.Ctx \in {"nil", "unset"} THEN "background" ELSE req.Ctx

\* ctx.Err(): context.Canceled once the signal context has been cancelled
CtxErr(ctx) == IF ctx = "signal" /\ gdone THEN "Canceled" ELSE "nil"

\* mapUseCaseError
mapUseCaseError(err) ==
    LET resp == SetHeader(NewResponse, HdrContentType, TextPlain)
    IN  CASE err = "ErrBadRequest"   -> WriteString(SetStatus(resp, 400), BodyBadRequest)
          [] err = "ErrUnauthorized" ->
                 WriteString(SetStatus(resp, 401),
                             <<"U","n","a","u","t","h","o","r","i","z","e","d">>)
          [] err = "ErrNotFound"     -> WriteString(SetStatus(resp, 404), BodyNotFound)
          [] OTHER                   -> WriteString(SetStatus(resp, 500),
                                                    BodyInternalServerError)

ContextInit ==
    /\ gctx \in {"nil", "background", "signal"}
    /\ gdone \in {d \in BOOLEAN : d => gctx = "signal"}
    /\ gleft \in 1..MaxContextRequests
    /\ gpc = "drain"
    /\ greq = NoRequest
    /\ gcall = NoCall
    /\ gresp = NilResponse
    /\ ghanded = <<>>
    /\ gout = <<>>
    /\ ConnIdle /\ ServeIdle /\ TimeoutIdle /\ RouterEmpty
    /\ RecoveryIdle /\ ChainIdle /\ WriteIdle /\ ParserIdle /\ DeadlineIdle /\ RestIdle

\* cancel(): the signal context is cancelled, at any time
ContextCancel ==
    /\ gctx = "signal" /\ ~gdone /\ gpc # "closed"
    /\ gdone' = TRUE
    /\ UNCHANGED <<gctx, gleft, gpc, greq, gcall, gresp, ghanded, gout>>
    /\ UNCHANGED <<coreVars, recoveryVars, chainVars, writeVars, parserVars, deadlineVars, restVars>>

\* Lines 40-46: a request is parsed, its Ctx is set, and writeRoutedResponse
\* hands it to the handler of its route
ContextHand ==
    /\ gpc = "drain" /\ gleft > 0
    /\ \E uc \in UseCases :
           greq' = [Ctx |-> gctx, usecase |-> uc, cancelled |-> CtxErr(gctx) = "Canceled"]
    /\ ghanded' = Append(ghanded, greq'.Ctx)
    /\ gleft' = gleft - 1
    /\ gcall' = NoCall
    /\ gresp' = NilResponse
    /\ gpc' = "handler"
    /\ UNCHANGED <<gctx, gdone, gout>>
    /\ UNCHANGED <<coreVars, recoveryVars, chainVars, writeVars, parserVars, deadlineVars, restVars>>

\* AdaptUseCaseHandler with a nil handler
AdapterNil ==
    /\ gpc = "handler" /\ greq.usecase = "nil"
    /\ gresp' = internalServerErrorResponse
    /\ gpc' = "mapped"
    /\ UNCHANGED <<gctx, gdone, gleft, greq, gcall, ghanded, gout>>
    /\ UNCHANGED <<coreVars, recoveryVars, chainVars, writeVars, parserVars, deadlineVars, restVars>>

\* handler.Handle(req.Context(), input) is called
AdapterHandle ==
    /\ gpc = "handler" /\ greq.usecase # "nil"
    /\ gcall' = [ctx |-> Context(greq), seen |-> "none", err |-> "none"]
    /\ gpc' = "usecase"
    /\ UNCHANGED <<gctx, gdone, gleft, greq, gresp, ghanded, gout>>
    /\ UNCHANGED <<coreVars, recoveryVars, chainVars, writeVars, parserVars, deadlineVars, restVars>>

\* Handle returns; the two use cases that look at their ctx return its
\* error, the first of them once ctx.Done() is closed
UseCaseReturn ==
    /\ gpc = "usecase"
    /\ greq.usecase = "cancelAware" => CtxErr(gcall.ctx) # "nil"
    /\ gcall' = IF greq.usecase \in {"cancelAware", "ctxErr"}
                THEN [gcall EXCEPT !.seen = CtxErr(gcall.ctx), !.err = CtxErr(gcall.ctx)]
                ELSE [gcall EXCEPT !.err = IF greq.usecase = "ok" THEN "nil"
                                           ELSE greq.usecase]
    /\ gpc' = "returned"
    /\ UNCHANGED <<gctx, gdone, gleft, greq, gresp, ghanded, gout>>
    /\ UNCHANGED <<coreVars, recoveryVars, chainVars, writeVars, parserVars, deadlineVars, restVars>>

\* The adapter turns what Handle returned into a response
AdapterMap ==
    /\ gpc = "returned"
    /\ gresp' = IF gcall.err # "nil" THEN mapUseCaseError(gcall.err)
                ELSE WriteBytes(SetHeader(SetStatus(NewResponse, 200), HdrContentType,
                                          TextPlain), <<"o", "k">>)
    /\ gpc' = "mapped"
    /\ UNCHANGED <<gctx, gdone, gleft, greq, gcall, ghanded, gout>>
    /\ UNCHANGED <<coreVars, recoveryVars, chainVars, writeVars, parserVars, deadlineVars, restVars>>

\* writeRoutedResponse writes the response of the handler; the connection is
\* kept alive
ContextWrite ==
    /\ gpc = "mapped"
    /\ gout' = Append(gout, [resp |-> routedResponse(gresp, FALSE), req |-> greq,
                             err |-> gcall.err])
    /\ gpc' = "drain"
    /\ UNCHANGED <<gctx, gdone, gleft, greq, gcall, gresp, ghanded>>
    /\ UNCHANGED <<coreVars, recoveryVars, chainVars, writeVars, parserVars, deadlineVars, restVars>>

\* The client has sent its last request and closes: the engine returns
ContextEOF ==
    /\ gpc = "drain" /\ gleft = 0
    /\ gpc' = "closed"
    /\ UNCHANGED <<gctx, gdone, gleft, greq, gcall, gresp, ghanded, gout>>
    /\ UNCHANGED <<coreVars, recoveryVars, chainVars, writeVars, parserVars, deadlineVars, restVars>>

ContextNext ==
    \/ ContextCancel
    \/ ContextHand
    \/ AdapterNil
    \/ AdapterHandle
    \/ UseCaseReturn
    \/ AdapterMap
    \/ ContextWrite
    \/ ContextEOF

SpecContext == ContextInit /\ [][ContextNext]_vars

----------------------------------------------------------------------------
(* Claims about the engine's context                                       *)

\* C26: every request the engine hands to a handler carries the context
\* given to the engine; when that context is already cancelled as the request
\* is handed over, a use case behind AdaptUseCaseHandler that looks at its
\* context sees context.Canceled, and the error it returns is answered with
\* a 500.
C26_ContextReachesUseCase ==
    /\ \A i \in 1..Len(ghanded) : ghanded[i] = gctx
    /\ gpc \in {"handler", "usecase", "returned", "mapped"} => greq.Ctx = gctx
    /\ gpc \in {"usecase", "returned"} =>
           gcall.ctx = IF gctx = "nil" THEN "background" ELSE gctx
    /\ (gpc \in {"returned", "mapped"} /\ greq.cancelled
            /\ greq.usecase \in {"cancelAware", "ctxErr"}) =>
           /\ gcall.seen = "Canceled"
           /\ gcall.err = "Canceled"
           /\ gpc = "mapped" => gresp.StatusCode = 500
    /\ \A i \in 1..Len(gout) :
           (gout[i].req.cancelled /\ gout[i].req.usecase \in {"cancelAware", "ctxErr"}) =>
               /\ gout[i].err = "Canceled"
               /\ gout[i].resp.StatusCode = 500
               /\ gout[i].resp.Body = BodyInternalServerError

\* The engine was given a cancelled context; the use case of the second
\* request on the connection waited for it, returned context.Canceled and was
\* answered with a 500
C26_Witness ==
    /\ gctx = "signal" /\ gdone
    /\ Len(gout) = 2
    /\ gout[2].req.usecase = "cancelAware" /\ gout[2].req.cancelled
    /\ gout[2].req.Ctx = "signal"
    /\ gout[2].err = "Canceled"
    /\ gout[2].resp.StatusCode = 500

----------------------------------------------------------------------------
(* handleConn and the deadlines of its connection: the deadlines are set,  *)
(* then the engine reads, parses and writes until it returns               *)

\* The most requests a client sends on the connection
MaxDeadlineRequests == 2

\* The configured timeouts: a negative one, none, a positive one
Timeouts == {-1, 0, 1}

DeadlineInit ==
    /\ readTimeout \in Timeouts
    /\ writeTimeout \in Timeouts
    /\ dpc = "readDeadline"
    /\ dleft \in 0..MaxDeadlineRequests
    /\ dpassed = {}
    /\ dfail = FALSE
    /\ devents = <<>>
    /\ ConnIdle /\ ServeIdle /\ TimeoutIdle /\ RouterEmpty
    /\ RecoveryIdle /\ ChainIdle /\ WriteIdle /\ ParserIdle /\ ContextIdle /\ RestIdle

\* handleConn with the read deadline set whatever the timeout is
HandleConnReadDeadline_Always ==
    /\ dpc = "readDeadline"
    /\ devents' = Append(devents, "SetReadDeadline")
    /\ dpc' = "writeDeadline"
    /\ UNCHANGED <<readTimeout, writeTimeout, dleft, dpassed, dfail>>
    /\ UNCHANGED <<coreVars, recoveryVars, chainVars, writeVars, parserVars, contextVars, restVars>>

\* handleConn, lines 238-240
HandleConnReadDeadline ==
    /\ dpc = "readDeadline"
    /\ devents' = IF readTimeout > 0 THEN Append(devents, "SetReadDeadline") ELSE devents
    /\ dpc' = "writeDeadline"
    /\ UNCHANGED <<readTimeout, writeTimeout, dleft, dpassed, dfail>>
    /\ UNCHANGED <<coreVars, recoveryVars, chainVars, writeVars, parserVars, contextVars, restVars>>

\* handleConn, lines 241-245: the write deadline, then the engine is called
HandleConnWriteDeadline ==
    /\ dpc = "writeDeadline"
    /\ devents' = IF writeTimeout > 0 THEN Append(devents, "SetWriteDeadline") ELSE devents
    /\ dpc' = "read"
    /\ UNCHANGED <<readTimeout, writeTimeout, dleft, dpassed, dfail>>
    /\ UNCHANGED <<coreVars, recoveryVars, chainVars, writeVars, parserVars, contextVars, restVars>>

\* The time of a deadline that was set comes
DeadlinePasses ==
    /\ dpc \in {"read", "parse", "write"}
    /\ \E kind \in {"SetReadDeadline", "SetWriteDeadline"} \ dpassed :
           /\ \E i \in 1..Len(devents) : devents[i] = kind
           /\ dpassed' = dpassed \cup {kind}
    /\ UNCHANGED <<readTimeout, writeTimeout, dpc, dleft, dfail, devents>>
    /\ UNCHANGED <<coreVars, recoveryVars, chainVars, writeVars, parserVars, contextVars, restVars>>

\* The engine's conn.Read: a request, the end of the stream, or an error
\* once the read deadline has passed
DeadlineRead ==
    /\ dpc = "read"
    /\ devents' = Append(devents, "Read")
    /\ IF "SetReadDeadline" \in dpassed
       THEN dpc' = "write" /\ dfail' = TRUE /\ UNCHANGED dleft
       ELSE IF dleft = 0
       THEN dpc' = "returned" /\ UNCHANGED <<dleft, dfail>>
       ELSE dpc' = "parse" /\ dleft' = dleft - 1 /\ UNCHANGED dfail
    /\ UNCHANGED <<readTimeout, writeTimeout, dpassed>>
    /\ UNCHANGED <<coreVars, recoveryVars, chainVars, writeVars, parserVars, contextVars, restVars>>

\* The engine parses the request and its handler returns
DeadlineParse ==
    /\ dpc = "parse"
    /\ devents' = Append(devents, "Parse")
    /\ dpc' = "write"
    /\ UNCHANGED <<readTimeout, writeTimeout, dleft, dpassed, dfail>>
    /\ UNCHANGED <<coreVars, recoveryVars, chainVars, writeVars, parserVars, contextVars, restVars>>

\* The engine's conn.Write, whose result is ignored: after the response of a
\* request the engine reads on, after a 400 it returns
DeadlineWrite ==
    /\ dpc = "write"
    /\ devents' = Append(devents, "Write")
    /\ dpc' = IF dfail THEN "returned" ELSE "read"
    /\ UNCHANGED <<readTimeout, writeTimeout, dleft, dpassed, dfail>>
    /\ UNCHANGED <<coreVars, recoveryVars, chainVars, writeVars, parserVars, contextVars, restVars>>

DeadlineNext ==
    \/ HandleConnReadDeadline
    \/ HandleConnWriteDeadline
    \/ DeadlinePasses
    \/ DeadlineRead
    \/ DeadlineParse
    \/ DeadlineWrite

SpecDeadline == DeadlineInit /\ [][DeadlineNext]_vars

----------------------------------------------------------------------------
(* Claims about the deadlines of a connection                              *)

\* The places of an event in the history of the connection
PlacesOf(event) == {i \in 1..Len(devents) : devents[i] = event}

\* The places at which a deadline is set
SetPlaces == PlacesOf("SetReadDeadline") \cup PlacesOf("SetWriteDeadline")

\* C27: on a connection the read deadline and the write deadline are each
\* set at most once, before the first read or parse, and only when the
\* configured timeout of that kind is positive; once the engine runs, no step
\* sets a deadline again, however many requests the connection carries.
C27_DeadlinesSetOnce ==
    /\ [](/\ Cardinality(PlacesOf("SetReadDeadline")) <= 1
          /\ Cardinality(PlacesOf("SetWriteDeadline")) <= 1
          /\ PlacesOf("SetReadDeadline") # {} => readTimeout > 0
          /\ PlacesOf("SetWriteDeadline") # {} => writeTimeout > 0
          /\ \A i \in PlacesOf("SetReadDeadline") \cup PlacesOf("SetWriteDeadline") :
                 \A j \in PlacesOf("Read") \cup PlacesOf("Parse") \cup PlacesOf("Write") :
                     i < j
          /\ dpc \in {"read", "parse", "write", "returned"} =>
                 /\ readTimeout > 0 => PlacesOf("SetReadDeadline") # {}
                 /\ writeTimeout > 0 => PlacesOf("SetWriteDeadline") # {})
    /\ [][(dpc \in {"read", "parse", "write"}) => (SetPlaces' = SetPlaces)]_vars

\* Both deadlines were set, and two requests were read, parsed and answered
\* on the connection behind them
C27_Witness ==
    /\ readTimeout > 0 /\ writeTimeout > 0
    /\ Len(devents) = 8
    /\ devents[1] = "SetReadDeadline" /\ devents[2] = "SetWriteDeadline"
    /\ Cardinality(PlacesOf("Write")) = 2
    /\ Cardinality(PlacesOf("Parse")) = 2

----------------------------------------------------------------------------
(* Claims about the connection engine                                      *)

Last(q) == q[Len(q)]

\* The response answers the item: status, body and, for a 405, the Allow header
Answers(resp, item) ==
    /\ resp.StatusCode = item.status
    /\ resp.Body = item.body
    /\ item.status = 405 => HeaderGet(resp.Headers, HdrAllow) = item.allow

IsBadRequestClose(resp) ==
    /\ resp.StatusCode = 400
    /\ resp.Body = BodyBadRequest
    /\ HeaderGet(resp.Headers, HdrConnection) = ValClose

\* C1: on one connection the requests are parsed in the order of the byte
\* stream and the j-th response the engine writes answers the j-th parsed
\* request; the only further write is the one 400 that ends the connection, and
\* nothing is written after a response that closes the connection.
C1_ResponsesInStreamOrder ==
    /\ Len(parsed) <= Len(sent)
    /\ \A j \in 1..Len(parsed) :
          /\ Catalogue[sent[j]].kind = "request"
          /\ parsed[j].Method = Catalogue[sent[j]].method
          /\ parsed[j].Path = Catalogue[sent[j]].path
    /\ Len(out) <= Len(parsed) + 1
    /\ \A j \in 1..Len(out) :
          IF j <= Len(parsed)
          THEN /\ Answers(out[j].resp, Catalogue[sent[j]])
               /\ j < Len(out) => ~Catalogue[sent[j]].close
          ELSE IsBadRequestClose(out[j].resp) /\ epc = "closed"

\* Two different pipelined requests have both been answered and the second
\* answer closed the connection
C1_Witness ==
    /\ Len(sent) = 2 /\ sent[1] # sent[2]
    /\ Len(parsed) = 2 /\ Len(out) = 2
    /\ endReason = "closeConn"

\* The close rule as the claim states it
ClaimClose(req) ==
    LET v == ToLower(TrimSpace(HeaderGet(req.Headers, ConnectionKey)))
    IN  \/ req.Version = HTTP11 /\ v = ValClose
        \/ req.Version = HTTP10 /\ v # ValKeepAlive

\* C2: for every parsed request whose response has been written, the engine
\* has returned (closing the socket) right after that response iff the request
\* is HTTP/1.1 with Connection "close" or HTTP/1.0 without Connection
\* "keep-alive"; otherwise the socket stays open and the engine goes on.
C2_CloseIffPolicy ==
    \A j \in 1..Len(parsed) :
        j <= Len(out) =>
            LET closedAfter == endReason = "closeConn" /\ j = Len(parsed)
            IN  /\ closedAfter <=> ClaimClose(parsed[j])
                /\ closedAfter <=> Catalogue[sent[j]].close
                /\ closedAfter => epc = "closed" /\ ~sockOpen
                /\ (~closedAfter /\ j = Len(parsed) /\ endReason = "none") =>
                       sockOpen /\ epc \in {"drain", "read", "parsed"}

\* An HTTP/1.0 keep-alive request was answered and the connection went on to
\* a second request, whose answer closed it
C2_Witness ==
    /\ Len(parsed) = 2 /\ Len(out) = 2
    /\ parsed[1].Version = HTTP10
    /\ endReason = "closeConn"

\* The number of handler invocations the parsed requests call for
RoutedCount == Cardinality({j \in 1..Len(parsed) : Catalogue[sent[j]].routed})

\* C4: when the engine has ended on a malformed request, it has written one 400
\* "Bad Request" with Connection: close after the answers to the requests
\* parsed before it, has closed the socket, has invoked no handler for the
\* malformed input, and has parsed and answered nothing that follows it.
C4_MalformedEnds ==
    endReason = "malformed" =>
        /\ epc = "closed" /\ ~sockOpen
        /\ Len(parsed) < Len(sent)
        /\ Catalogue[sent[Len(parsed) + 1]].kind # "request"
        /\ Len(out) = Len(parsed) + 1
        /\ IsBadRequestClose(Last(out).resp)
        /\ \A j \in 1..Len(parsed) : out[j].resp.StatusCode = Catalogue[sent[j]].status
        /\ Len(invoked) = RoutedCount

\* The engine ended on a malformed request that a complete request follows
C4_Witness ==
    /\ endReason = "malformed"
    /\ Len(sent) = 2 /\ Len(parsed) = 0
    /\ Catalogue[sent[2]].kind = "request"
    /\ Len(out) = 1

C28_ReadEndsTheEngine ==
    [][(epc = "read" /\ epc' = "closed") =>
           /\ ~sockOpen'
           /\ endReason' \in {"eof", "eofWithData", "readError"}
           /\ IF endReason' \in {"eof", "eofWithData"} /\ buffer' = <<>>
              THEN out' = out
              ELSE /\ Len(out') = Len(out) + 1
                   /\ SubSeq(out', 1, Len(out)) = out
                   /\ IsBadRequestClose(Last(out').resp)]_vars

\* The stream ended behind an answered request and a request cut short: the
\* second and last write is the 400
C28_Witness ==
    /\ epc = "closed" /\ endReason = "eof"
    /\ buffer # <<>> /\ wire = <<>>
    /\ Len(out) = 2 /\ Len(parsed) = 1
    /\ ~IsBadRequestClose(out[1].resp)
    /\ IsBadRequestClose(out[2].resp) /\ out[2].ok

\* C38: a successful parse consumes at least one byte and at most the whole
\* buffer; every answered request leaves the buffer strictly shorter, which
\* bounds the drain iterations between two reads by the length of the
\* buffer; the parser is only handed a buffer that is not empty.
C38_ParseConsumes ==
    /\ []((epc \in {"parsed", "handler"} /\ cur.err = "nil") =>
             (cur.consumed >= 1 /\ cur.consumed <= Len(buffer)))
    /\ [](epc = "parsed" => buffer # <<>>)
    /\ [][(epc \in {"parsed", "handler"} /\ cur.err = "nil" /\ cur' = NoCur) =>
              Len(buffer') < Len(buffer)]_vars
    /\ [][(epc = "drain" /\ epc' = "parsed") => buffer # <<>>]_vars

\* The whole pipeline is in the buffer and its first request is parsed: the
\* parse consumed less than the buffer, the next iteration finds the rest
C38_Witness ==
    /\ epc = "parsed" /\ cur.err = "nil"
    /\ out = <<>> /\ wire = <<>> /\ Len(sent) = 2
    /\ cur.consumed >= 1 /\ cur.consumed < Len(buffer)

\* The j-th item of the stream is a complete request that the engine gets to:
\* only complete requests that keep the connection alive come before it
Reached(j) ==
    \A i \in 1..j :
        /\ Catalogue[sent[i]].kind = "request"
        /\ (i < j => ~Catalogue[sent[i]].close)

\* C39: when the engine has ended with the whole stream delivered, every
\* complete request of the stream it got to has been answered with its routed
\* response, also when the read that delivered the last bytes reported the
\* end of the stream in the same call.
C39_CompleteRequestsAnswered ==
    (epc = "closed" /\ wire = <<>>) =>
        \A j \in 1..Len(sent) :
            Reached(j) => /\ Len(out) >= j
                          /\ Answers(out[j].resp, Catalogue[sent[j]])

----------------------------------------------------------------------------
(* Specification SpecChunks: the engine on streams built to a size, which  *)
(* reach it in reads of different lengths                                  *)

\* The reads of one connection that may return fewer bytes than they could
MaxShortReads == 2

\* What such a read returns
ShortSizes == {1, 3}

\* A head of n bytes with a Content-Length of length, its terminator, and
\* supplied bytes of body
SizedRequest(n, length, supplied) ==
    LET first == LimitRequestLine \o CRLF \o HdrContentLength \o <<":", " ">> \o Itoa(length)
    IN  first \o PadLines(n - Len(first), CRLF) \o CRLF \o CRLF \o Repeat("b", supplied)

\* The pipelines of the catalogue in which a request waits behind an answered
\* one; requests without a body whose head is near the limit of 16,384
\* bytes; and a request with the largest head and the largest body, which the
\* client leaves one byte short
SmallStreams == {WireOf(p) : p \in WaitingPipelines}

HeadStreams ==
    {BlockInput(Shape("block", n, t, FALSE, FALSE, <<>>, 0)) :
        n \in {16381, 16384, 16385}, t \in {"crlf", "lf"}}

LargestStream == SizedRequest(maxHeadersBytes, maxBodyBytes, maxBodyBytes - 1)

ChunksInit ==
    /\ cstream \in SmallStreams \cup HeadStreams \cup {LargestStream}
    /\ cshort = IF Len(cstream) > 8 * readChunkSize THEN 0 ELSE MaxShortReads
    /\ sent = <<>>
    /\ wire = cstream
    /\ buffer = <<>>
    /\ epc = "drain"
    /\ cur = NoCur
    /\ out = <<>>
    /\ parsed = <<>>
    /\ invoked = <<>>
    /\ sockOpen = TRUE
    /\ endReason = "none"
    /\ ServeIdle /\ TimeoutIdle /\ EngineRouter
    /\ RecoveryIdle /\ ChainIdle /\ WriteIdle /\ ParserIdle /\ ContextIdle /\ DeadlineIdle
    /\ OverlapIdle /\ LastIdle

\* ReadChunk with a chunk that takes whatever the client has sent
ReadChunk_Whole ==
    /\ epc = "read" /\ sockOpen /\ wire # <<>>
    /\ wire' = <<>>
    /\ buffer' = buffer \o wire
    /\ epc' = "drain"
    /\ UNCHANGED <<sent, cur, out, parsed, invoked, sockOpen, endReason, cstream, cshort>>
    /\ UNCHANGED <<serveVars, timeoutVars, routerVars>>
    /\ UNCHANGED <<recoveryVars, chainVars, writeVars, parserVars, contextVars, deadlineVars,
                   overlapVars, lastVars>>

\* conn.Read returns n > 0 bytes and no error: as many as the chunk takes, or
\* fewer
ReadChunk ==
    /\ epc = "read" /\ sockOpen /\ wire # <<>>
    /\ LET full == IF Len(wire) < readChunkSize THEN Len(wire) ELSE readChunkSize
       IN  \E n \in {full} \cup {k \in ShortSizes : cshort > 0 /\ k < full} :
              /\ wire' = SubSeq(wire, n + 1, Len(wire))
              /\ buffer' = buffer \o SubSeq(wire, 1, n)
              /\ cshort' = IF n = full THEN cshort ELSE cshort - 1
    /\ epc' = "drain"
    /\ UNCHANGED <<sent, cur, out, parsed, invoked, sockOpen, endReason, cstream>>
    /\ UNCHANGED <<serveVars, timeoutVars, routerVars>>
    /\ UNCHANGED <<recoveryVars, chainVars, writeVars, parserVars, contextVars, deadlineVars,
                   overlapVars, lastVars>>

ChunksNext ==
    \/ DrainEmpty
    \/ Parse
    \/ DispatchFallback
    \/ DispatchInvoke
    \/ HandlerReturn
    \/ ParseIncomplete
    \/ ParseMalformed
    \/ ReadChunk
    \/ ReadEOF

SpecChunks == ChunksInit /\ [][ChunksNext]_vars

----------------------------------------------------------------------------
(* Claims about the engine and the way its bytes arrive                    *)

\* Lines 38-63 and 69-76 when the buffer holds the whole stream and the next
\* read reports its end: the responses the engine writes
RECURSIVE Unsplit(_, _)
Unsplit(buf, outs) ==
    IF buf = <<>> THEN outs
    ELSE LET pr == ParseRequest(buf)
         IN  IF pr.err # "nil" THEN Append(outs, badRequestResponse)
             ELSE LET closeConn == shouldCloseConnection(pr.req)
                      rs        == Resolve(routes, pr.req.Method, pr.req.Path)
                      resp      == IF rs.ok /\ rs.handler # "nil"
                                   THEN routedResponse(HandlerResponse(rs.handler, pr.req),
                                                       closeConn)
                                   ELSE fallbackResponse(AllowedMethods(routes, pr.req.Path),
                                                         closeConn)
                  IN  IF closeConn \/ pr.consumed > Len(buf) THEN Append(outs, resp)
                      ELSE Unsplit(SubSeq(buf, pr.consumed + 1, Len(buf)), Append(outs, resp))

Responses == [i \in 1..Len(out) |-> out[i].resp]

\* C32: when the engine has ended, the responses it has written are those
\* that the stream gets when it is not split, however the reads have split
\* it (no read returns bytes together with the end of the stream).
C32_ResponsesWhateverTheSplit ==
    epc = "closed" => Responses = Unsplit(cstream, <<>>)

\* C37: whenever the engine is about to read, its buffer holds fewer than
\* 16,384 + 4 + 262,144 bytes; a read adds at most 4,096 bytes, so the buffer
\* never holds as many as 16,384 + 4 + 262,144 + 4,096 bytes.
C37_BufferBounded ==
    /\ [](epc = "read" => Len(buffer) < 16384 + 4 + 262144)
    /\ [](Len(buffer) < 16384 + 4 + 262144 + 4096)
    /\ [][(epc = "read" /\ epc' = "drain") =>
              Len(buffer') <= Len(buffer) + 4096]_vars

\* The engine is about to read with a head of 16,384 bytes in its buffer,
\* the longest a parse leaves as incomplete, and the terminator still to come
C37_Witness ==
    /\ epc = "read" /\ sockOpen
    /\ Len(buffer) = maxHeadersBytes
    /\ Len(wire) = 4
    /\ out = <<>>

----------------------------------------------------------------------------
(* Specification SpecConnClosed: the engine of a connection whose socket   *)
(* the runtime may close under it                                          *)

\* handleConn's watcher goroutine on <-ctx.Done(), or closeTrackedConns after
\* the shutdown deadline: conn.Close() from outside the engine. From then on
\* every conn.Read and conn.Write of the engine fails.
SocketClosed ==
    /\ epc # "closed" /\ sockOpen
    /\ sockOpen' = FALSE
    /\ UNCHANGED <<sent, wire, buffer, epc, cur, out, parsed, invoked, endReason>>
    /\ UNCHANGED <<serveVars, timeoutVars, routerVars, laterVars>>

ConnClosedNext ==
    \/ ConnNext
    \/ SocketClosed

SpecConnClosed == ConnInit /\ [][ConnClosedNext]_vars

\* C33: while the engine runs on a socket that has been closed under it, or
\* after one of its writes has failed, no handler is invoked.
C33_NoHandlerOnceClosed ==
    [][((epc # "closed" /\ ~sockOpen) \/ (\E i \in 1..Len(out) : ~out[i].ok))
           => invoked' = invoked]_vars

----------------------------------------------------------------------------
(* Specification SpecOverlap: the engine of one connection with            *)
(* TimeoutMiddleware(T) around the handler of every route                  *)

\* The requests a client pipelines on the connection; each of them is routed
\* and keeps the connection alive
MaxOverlapRequests == 3

\* All the requests are in the buffer (one read has returned them)
OverlapInit ==
    /\ otimeout \in {0, 1}
    /\ oleft \in 1..MaxOverlapRequests
    /\ opc = "drain"
    /\ ocur = 0
    /\ otasks = {} /\ ochan = {} /\ oout = <<>>
    /\ ConnIdle /\ ServeIdle /\ TimeoutIdle /\ RouterEmpty
    /\ RecoveryIdle /\ ChainIdle /\ WriteIdle /\ ParserIdle /\ ContextIdle /\ DeadlineIdle
    /\ ChunkIdle /\ LastIdle

\* The engine, lines 40-46 and 129, with middleware.go 77-79: the request is
\* parsed and its handler called; with T <= 0 the middleware calls the next
\* handler in the engine's goroutine
OverlapCall ==
    /\ opc = "drain" /\ oleft > 0 /\ otimeout <= 0
    /\ oleft' = oleft - 1
    /\ ocur' = ocur + 1
    /\ otasks' = otasks \cup {ocur + 1}
    /\ opc' = "handler"
    /\ UNCHANGED <<otimeout, ochan, oout>>
    /\ UNCHANGED <<coreVars, recoveryVars, chainVars, writeVars, parserVars, contextVars,
                   deadlineVars, chunkVars, lastVars>>

\* The engine, lines 40-46 and 129, with middleware.go 81-96: with T > 0 the
\* middleware makes the channels of this call, starts the goroutine that
\* calls the next handler, and goes to its select
OverlapSpawn ==
    /\ opc = "drain" /\ oleft > 0 /\ otimeout > 0
    /\ oleft' = oleft - 1
    /\ ocur' = ocur + 1
    /\ otasks' = otasks \cup {ocur + 1}
    /\ opc' = "select"
    /\ UNCHANGED <<otimeout, ochan, oout>>
    /\ UNCHANGED <<coreVars, recoveryVars, chainVars, writeVars, parserVars, contextVars,
                   deadlineVars, chunkVars, lastVars>>

\* Line 129 with T <= 0: the handler returns to the engine, which writes the
\* response (lines 137-139) and goes on with its buffer
OverlapReturn ==
    /\ opc = "handler"
    /\ otasks' = otasks \ {ocur}
    /\ oout' = Append(oout, 200)
    /\ opc' = "drain"
    /\ UNCHANGED <<otimeout, oleft, ocur, ochan>>
    /\ UNCHANGED <<coreVars, recoveryVars, chainVars, writeVars, parserVars, contextVars,
                   deadlineVars, chunkVars, lastVars>>

\* middleware.go 88-96: the handler of request k returns in its goroutine,
\* which sends the response on the responseCh of its call and ends
OverlapTaskReturns(k) ==
    /\ otimeout > 0 /\ k \in otasks
    /\ otasks' = otasks \ {k}
    /\ ochan' = ochan \cup {k}
    /\ UNCHANGED <<otimeout, oleft, opc, ocur, oout>>
    /\ UNCHANGED <<coreVars, recoveryVars, chainVars, writeVars, parserVars, contextVars,
                   deadlineVars, chunkVars, lastVars>>

\* middleware.go 105-106: the select takes the response of its call; the
\* engine writes it and goes on with its buffer
OverlapSelectResponse ==
    /\ opc = "select" /\ ocur \in ochan
    /\ ochan' = ochan \ {ocur}
    /\ oout' = Append(oout, 200)
    /\ opc' = "drain"
    /\ UNCHANGED <<otimeout, oleft, ocur, otasks>>
    /\ UNCHANGED <<coreVars, recoveryVars, chainVars, writeVars, parserVars, contextVars,
                   deadlineVars, chunkVars, lastVars>>

\* middleware.go 107-115: the deadline of the call passes and the select
\* takes <-timeoutCtx.Done(); the middleware returns the 408, which the
\* engine writes before it goes on with its buffer. The goroutine of the
\* call is left as it is.
OverlapSelectDeadline ==
    /\ opc = "select"
    /\ oout' = Append(oout, 408)
    /\ opc' = "drain"
    /\ UNCHANGED <<otimeout, oleft, ocur, otasks, ochan>>
    /\ UNCHANGED <<coreVars, recoveryVars, chainVars, writeVars, parserVars, contextVars,
                   deadlineVars, chunkVars, lastVars>>

\* The engine, lines 65-76: the buffer is empty and the read reports the end
\* of the stream
OverlapEOF ==
    /\ opc = "drain" /\ oleft = 0
    /\ opc' = "closed"
    /\ UNCHANGED <<otimeout, oleft, ocur, otasks, ochan, oout>>
    /\ UNCHANGED <<coreVars, recoveryVars, chainVars, writeVars, parserVars, contextVars,
                   deadlineVars, chunkVars, lastVars>>

OverlapNext ==
    \/ OverlapCall
    \/ OverlapSpawn
    \/ OverlapReturn
    \/ \E k \in 1..MaxOverlapRequests : OverlapTaskReturns(k)
    \/ OverlapSelectResponse
    \/ OverlapSelectDeadline
    \/ OverlapEOF

SpecOverlap == OverlapInit /\ [][OverlapNext]_vars

\* C34: at any time at most one handler invocation is executing for the
\* connection.
C34_OneHandlerAtATime ==
    Cardinality(otasks) <= 1

----------------------------------------------------------------------------
(* Specification SpecResolve: registrations and lookups on one router, with *)
(* methods and paths that contain ':'                                       *)

PathUpperColon == <<"/","A",":","/","b">>
MColon == <<"g","e","t",":","/","a">>

\* The (method, path) pairs routes are registered for, and the methods and
\* paths looked up
ResolvePairs ==
    { <<MGet, PathB>>, <<MLowerGet, PathB>>, <<MPost, PathB>>,
      <<MGet, PathUpperColon>>, <<MColon, PathB>> }
ResolveMethods == {MGet, MLowerGet, MPost, MColon}
ResolvePaths   == {PathA, PathB, PathUpperColon}

ResolveInit ==
    /\ RouterEmpty
    /\ latest = <<>>
    /\ ConnIdle /\ ServeIdle /\ TimeoutIdle
    /\ RecoveryIdle /\ ChainIdle /\ WriteIdle /\ ParserIdle /\ ContextIdle /\ DeadlineIdle
    /\ ChunkIdle /\ OverlapIdle /\ BytesIdle

\* Router.Register(method, path, handler)
ResolveRegister ==
    /\ \E pair \in ResolvePairs, handler \in {"hText", "hEcho"} :
          LET named == <<ToUpper(pair[1]), pair[2]>>
          IN  /\ routes' = Register(routes, pair[1], pair[2], handler)
              /\ registered' = registered \cup {named}
              /\ latest' = [q \in (DOMAIN latest) \cup {named} |->
                               IF q = named THEN handler ELSE latest[q]]
    /\ probe' = NoProbe
    /\ UNCHANGED <<connVars, serveVars, timeoutVars>>
    /\ UNCHANGED <<recoveryVars, chainVars, writeVars, parserVars, contextVars, deadlineVars,
                   chunkVars, overlapVars, bytesVars>>

\* Router.Resolve(method, path)
ResolveLookup ==
    /\ \E method \in ResolveMethods, path \in ResolvePaths :
          LET rs == Resolve(routes, method, path)
          IN  probe' = [method |-> method, path |-> path, fallback |-> ~rs.ok,
                        handler |-> rs.handler, resp |-> NilResponse]
    /\ UNCHANGED <<routes, registered, latest>>
    /\ UNCHANGED <<connVars, serveVars, timeoutVars>>
    /\ UNCHANGED <<recoveryVars, chainVars, writeVars, parserVars, contextVars, deadlineVars,
                   chunkVars, overlapVars, bytesVars>>

ResolveNext ==
    \/ ResolveRegister
    \/ ResolveLookup

SpecResolve == ResolveInit /\ [][ResolveNext]_vars

\* C36: Resolve(m, p) returns a handler iff a pair (M, P) with
\* uppercase(M) = uppercase(m) and P = p was registered, and the handler is
\* the one of the last registration of that pair.
C36_ResolveIffRegistered ==
    probe # NoProbe =>
        LET named == <<ToUpper(probe.method), probe.path>>
        IN  /\ ~probe.fallback <=> named \in registered
            /\ named \in registered => probe.handler = latest[named]

----------------------------------------------------------------------------
(* Specification SpecBytes: one response whose caller writes bodies, sets  *)
(* headers and serialises it, in any order and more than once              *)

\* The calls of Bytes on one response
MaxBytesCalls == 2

\* What the caller writes and sets
CallerBodies == { <<>>, <<"h","i">>, <<"h","e","l","l","o"," ","w","o","r","l","d">> }
CallerHeaders ==
    { <<HdrContentType, TextPlain>>,
      <<HdrContentLengthLower, <<"9">> >> }

\* NewResponse()
BytesInit ==
    /\ bresp = NewResponse
    /\ bcaller = FALSE
    /\ bcalls = 0
    /\ bwire = <<>>
    /\ ConnIdle /\ ServeIdle /\ TimeoutIdle /\ RouterEmpty
    /\ RecoveryIdle /\ ChainIdle /\ WriteIdle /\ ParserIdle /\ ContextIdle /\ DeadlineIdle
    /\ ChunkIdle /\ OverlapIdle /\ ResolveIdle

\* resp.WriteBytes(body)
CallWriteBytes ==
    /\ \E b \in CallerBodies : bresp' = WriteBytes(bresp, b)
    /\ bresp' # bresp
    /\ UNCHANGED <<bcaller, bcalls, bwire>>
    /\ UNCHANGED <<coreVars, recoveryVars, chainVars, writeVars, parserVars, contextVars,
                   deadlineVars, chunkVars, overlapVars, resolveVars>>

\* resp.WriteString(body)
CallWriteString ==
    /\ \E b \in CallerBodies : bresp' = WriteString(bresp, b)
    /\ bresp' # bresp
    /\ UNCHANGED <<bcaller, bcalls, bwire>>
    /\ UNCHANGED <<coreVars, recoveryVars, chainVars, writeVars, parserVars, contextVars,
                   deadlineVars, chunkVars, overlapVars, resolveVars>>

\* resp.SetHeader(key, value); bcaller records that the caller has set a
\* Content-Length header, in any letter case
CallSetHeader ==
    /\ \E h \in CallerHeaders :
          /\ bresp' = SetHeader(bresp, h[1], h[2])
          /\ bcaller' = (bcaller \/ EqualFold(h[1], HdrContentLength))
    /\ bresp' # bresp
    /\ UNCHANGED <<bcalls, bwire>>
    /\ UNCHANGED <<coreVars, recoveryVars, chainVars, writeVars, parserVars, contextVars,
                   deadlineVars, chunkVars, overlapVars, resolveVars>>

\* resp.Bytes(): the Content-Length it adds is stored in resp.Headers, then
\* the response is serialised in the order the range visits the headers
CallBytes ==
    /\ bcalls < MaxBytesCalls
    /\ bresp' = BytesHeaders(bresp)
    /\ \E order \in KeyOrders(DOMAIN bresp'.Headers) : bwire' = Serialise(bresp', order)
    /\ bcalls' = bcalls + 1
    /\ UNCHANGED bcaller
    /\ UNCHANGED <<coreVars, recoveryVars, chainVars, writeVars, parserVars, contextVars,
                   deadlineVars, chunkVars, overlapVars, resolveVars>>

BytesNext ==
    \/ CallWriteBytes
    \/ CallWriteString
    \/ CallSetHeader
    \/ CallBytes

SpecBytes == BytesInit /\ [][BytesNext]_vars

\* C40: on a response whose caller never set a Content-Length header, every
\* call of Bytes puts on the wire one Content-Length, the decimal length of
\* the body the response has at that call, whatever WriteBytes, WriteString,
\* SetHeader and Bytes calls came before.
C40_LengthAtEveryCall ==
    [][(bcalls' = bcalls + 1 /\ ~bcaller) =>
           /\ WireValues(bwire', HdrContentLength) = {Itoa(Len(bresp.Body))}
           /\ WireAfterHead(bwire') = bresp.Body]_vars

====
